---- MODULE Spec2Model ----
(***************************************************************************)
(* Page Manipulation Engine of @pdfme/manipulator                          *)
(* (packages/manipulator/src/index.ts).                                    *)
(*                                                                         *)
(* A document is an ordered sequence of pages; a page carries the source   *)
(* it was created in, its index there and its rotation.  A byte buffer is  *)
(* what the codec (pdf-lib) saves a document to and loads it from.  Every  *)
(* public operation is one action: it draws its arguments from bounded     *)
(* sets and records the value the call returns (a buffer, a list of        *)
(* buffers, or the error it threw).  The engine keeps no state between     *)
(* calls, so a behaviour is one call.  A second specification runs several *)
(* calls of insert and organize at once, each advancing from one           *)
(* suspension point (an await) to the next.                                *)
(***************************************************************************)
EXTENDS Integers, Sequences, FiniteSets, TLC

VARIABLES op, args, result, steps, argsAfter, calls, frames, arrays, overlap

\* The single call of Spec.
svars == <<op, args, result, steps, argsAfter>>

\* The calls in flight of SpecConcurrent, the locals of their invocations,
\* the arrays their callers passed, and whether two calls were ever in
\* flight together.
cvars == <<calls, frames, arrays, overlap>>

vars == <<op, args, result, steps, argsAfter, calls, frames, arrays, overlap>>

(***************************************************************************)
(* Bounds of the model.                                                    *)
(***************************************************************************)
\* Largest page count of the document of a single-document call.
MaxPages == 3
\* Largest page count of a merged or inserted source document.
MaxSrcPages == 2
\* Longest list of documents, items, entries, ranges or insertions.
MaxItems == 2
\* Longest list of organize actions.
MaxActions == 2

(***************************************************************************)
(* Values.                                                                 *)
(***************************************************************************)
Min(a, b) == IF a < b THEN a ELSE b

Max(a, b) == IF a > b THEN a ELSE b

\* JavaScript's % : the remainder takes the sign of the dividend.
JsRem(a, b) == IF a >= 0 THEN a % b ELSE 0 - ((0 - a) % b)

Page(src, idx, rot) == [src |-> src, idx |-> idx, rot |-> rot]

\* The rotation the i-th page of an input document starts with.
InitRot(i) == ((i + 2) * 90) % 360

\* An input document of n pages created in source `name`.
MkDoc(name, n) == [i \in 1..n |-> Page(name, i - 1, InitRot(i - 1))]

\* A value a call returns, and an error it throws.
Ok(v) == [ok |-> TRUE, val |-> v, err |-> "none"]

Err(e) == [ok |-> FALSE, val |-> <<>>, err |-> e]

(***************************************************************************)
(* The collaborators: the document codec and the template renderer.        *)
(***************************************************************************)
\* PDFDocument.save(): the buffer holding the document's page sequence.
Save(doc) == [pdf |-> doc]

\* PDFDocument.load(): the page sequence a buffer holds.
Load(buf) == buf.pdf

\* PDFDocument.create(): a document without pages.
Create == <<>>

GetPageCount(doc) == Len(doc)

GetPageIndices(doc) == [i \in 1..Len(doc) |-> i - 1]

\* copyPages(srcDoc, indices): copies of the named pages, in the order named.
CopyPages(srcDoc, indices) == [k \in 1..Len(indices) |-> srcDoc[indices[k] + 1]]

AddPage(doc, page) == Append(doc, page)

\* insertPage(index, page), 0 <= index <= page count.
InsertPage(doc, index, page) ==
  SubSeq(doc, 1, index) \o <<page>> \o SubSeq(doc, index + 1, Len(doc))

\* removePage(index), 0 <= index < page count.
RemovePage(doc, index) ==
  SubSeq(doc, 1, index) \o SubSeq(doc, index + 2, Len(doc))

\* The input record of `inputs = [{}]`.
EmptyRecord == 0

\* generate({template, inputs}): one page per input record, in record order.
Generate(template, inputs) ==
  Save([j \in 1..Len(inputs) |-> Page(template, inputs[j], 0)])

(***************************************************************************)
(* mergeAdvanced, mergeWithTemplates, merge.                               *)
(***************************************************************************)
PdfItem(data) == [type |-> "pdf", data |-> data, hasPages |-> FALSE, pages |-> <<>>]

PdfItemPages(data, pages) == [type |-> "pdf", data |-> data, hasPages |-> TRUE, pages |-> pages]

TemplateItem(template, inputs) ==
  [type |-> "template", data |-> template, hasInputs |-> TRUE, inputs |-> inputs]

TemplateItemNoInputs(template) ==
  [type |-> "template", data |-> template, hasInputs |-> FALSE, inputs |-> <<>>]

AtStart == [kind |-> "start", index |-> 0]

AtEnd == [kind |-> "end", index |-> 0]

AtIndex(i) == [kind |-> "index", index |-> i]

\* A slip: the pages of an item are put in front of those collected so far.
RECURSIVE CollectPagesInFront(_, _, _)
CollectPagesInFront(items, i, allPages) ==
  IF i > Len(items) THEN Ok(allPages)
  ELSE LET item == items[i] IN
    IF item.type = "pdf" THEN
      LET srcDoc == Load(item.data)
          pageIndices == IF item.hasPages THEN item.pages ELSE GetPageIndices(srcDoc)
          maxPageIndex == GetPageCount(srcDoc) - 1
      IN IF \E k \in 1..Len(pageIndices) :
              pageIndices[k] < 0 \/ pageIndices[k] > maxPageIndex
         THEN Err("InvalidPageIndex")
         ELSE CollectPagesInFront(items, i + 1, CopyPages(srcDoc, pageIndices) \o allPages)
    ELSE LET inputs == IF item.hasInputs THEN item.inputs ELSE <<EmptyRecord>>
             templateDoc == Load(Generate(item.data, inputs))
         IN CollectPagesInFront(items, i + 1,
                      CopyPages(templateDoc, GetPageIndices(templateDoc)) \o allPages)

\* A slip: the pages of a document item are copied in ascending index order,
\* whatever the order `pages` names them in.
RECURSIVE CollectPagesAscending(_, _, _)
CollectPagesAscending(items, i, allPages) ==
  IF i > Len(items) THEN Ok(allPages)
  ELSE LET item == items[i] IN
    IF item.type = "pdf" THEN
      LET srcDoc == Load(item.data)
          pageIndices == IF item.hasPages THEN item.pages ELSE GetPageIndices(srcDoc)
          maxPageIndex == GetPageCount(srcDoc) - 1
          ascending == IF Len(pageIndices) = 2 /\ pageIndices[1] > pageIndices[2]
                       THEN <<pageIndices[2], pageIndices[1]>> ELSE pageIndices
      IN IF \E k \in 1..Len(pageIndices) :
              pageIndices[k] < 0 \/ pageIndices[k] > maxPageIndex
         THEN Err("InvalidPageIndex")
         ELSE CollectPagesAscending(items, i + 1, allPages \o CopyPages(srcDoc, ascending))
    ELSE LET inputs == IF item.hasInputs THEN item.inputs ELSE <<EmptyRecord>>
             templateDoc == Load(Generate(item.data, inputs))
         IN CollectPagesAscending(items, i + 1,
                      allPages \o CopyPages(templateDoc, GetPageIndices(templateDoc)))

\* The loop collecting the pages of every item (index.ts 29-55).
RECURSIVE CollectPages(_, _, _)
CollectPages(items, i, allPages) ==
  IF i > Len(items) THEN Ok(allPages)
  ELSE LET item == items[i] IN
    IF item.type = "pdf" THEN
      LET srcDoc == Load(item.data)
          pageIndices == IF item.hasPages THEN item.pages ELSE GetPageIndices(srcDoc)
          maxPageIndex == GetPageCount(srcDoc) - 1
      IN IF \E k \in 1..Len(pageIndices) :
              pageIndices[k] < 0 \/ pageIndices[k] > maxPageIndex
         THEN Err("InvalidPageIndex")
         ELSE CollectPages(items, i + 1, allPages \o CopyPages(srcDoc, pageIndices))
    ELSE IF item.type = "template" THEN
      LET inputs == IF item.hasInputs THEN item.inputs ELSE <<EmptyRecord>>
          templateDoc == Load(Generate(item.data, inputs))
      IN CollectPages(items, i + 1,
                      allPages \o CopyPages(templateDoc, GetPageIndices(templateDoc)))
    ELSE CollectPages(items, i + 1, allPages)

\* allPages.forEach((page) => mergedPdf.addPage(page))
RECURSIVE AddPages(_, _, _)
AddPages(doc, pages, k) ==
  IF k > Len(pages) THEN doc ELSE AddPages(AddPage(doc, pages[k]), pages, k + 1)

\* allPages.forEach((page, index) => mergedPdf.insertPage(insertIndex + index, page))
RECURSIVE InsertPages(_, _, _, _)
InsertPages(doc, insertIndex, pages, k) ==
  IF k > Len(pages) THEN doc
  ELSE InsertPages(InsertPage(doc, insertIndex + (k - 1), pages[k]), insertIndex, pages, k + 1)

\* A slip: 'start' inserts every page at index 0, one after the other.
PlacePagesStartAtZero(mergedPdf, allPages, position) ==
  IF position.kind = "start"
  THEN [k \in 1..Len(allPages) |-> allPages[Len(allPages) + 1 - k]] \o mergedPdf
  ELSE IF position.kind = "end" THEN AddPages(mergedPdf, allPages, 1)
  ELSE InsertPages(mergedPdf,
                   Min(Max(0, position.index), GetPageCount(mergedPdf)), allPages, 1)

\* "Add pages based on position" (index.ts 57-72).
PlacePages(mergedPdf, allPages, position) ==
  IF position.kind = "start" THEN AddPages(mergedPdf, allPages, 1)
  ELSE IF position.kind = "end" THEN AddPages(mergedPdf, allPages, 1)
  ELSE IF position.kind = "index" THEN
    LET currentPageCount == GetPageCount(mergedPdf)
        insertIndex == Min(Max(0, position.index), currentPageCount)
    IN InsertPages(mergedPdf, insertIndex, allPages, 1)
  ELSE mergedPdf

\* A slip: an integer position outside the destination is rejected, as
\* insert does, instead of being clamped.
mergeAdvancedRejectsPosition(items, position) ==
  IF Len(items) = 0 THEN Err("EmptyInput")
  ELSE LET mergedPdf == Create
           collected == CollectPages(items, 1, <<>>)
       IN IF ~collected.ok THEN collected
          ELSE IF position.kind = "index"
                  /\ (position.index < 0 \/ position.index > GetPageCount(mergedPdf))
          THEN Err("InvalidPosition")
          ELSE Ok(Save(PlacePages(mergedPdf, collected.val, position)))

mergeAdvanced(items, position) ==
  IF Len(items) = 0 THEN Err("EmptyInput")
  ELSE LET mergedPdf == Create
           collected == CollectPages(items, 1, <<>>)
       IN IF ~collected.ok THEN collected
          ELSE Ok(Save(PlacePages(mergedPdf, collected.val, position)))

\* A slip: every entry is merged with the base document, not with the result
\* of the entry before it.
RECURSIVE FoldTemplatesOnBase(_, _, _)
FoldTemplatesOnBase(currentPdf, templates, i) ==
  IF i > Len(templates) THEN Ok(currentPdf)
  ELSE LET t == templates[i]
           inputs == IF t.hasInputs THEN t.inputs ELSE <<EmptyRecord>>
           position == IF t.hasPosition THEN t.position ELSE AtEnd
           merged == mergeAdvanced(<<PdfItem(currentPdf), TemplateItem(t.template, inputs)>>,
                                   position)
       IN IF ~merged.ok THEN merged
          ELSE IF i = Len(templates) THEN merged
          ELSE FoldTemplatesOnBase(currentPdf, templates, i + 1)

\* The loop over the template entries (index.ts 89-100).
RECURSIVE FoldTemplates(_, _, _)
FoldTemplates(currentPdf, templates, i) ==
  IF i > Len(templates) THEN Ok(currentPdf)
  ELSE LET t == templates[i]
           inputs == IF t.hasInputs THEN t.inputs ELSE <<EmptyRecord>>
           position == IF t.hasPosition THEN t.position ELSE AtEnd
           items == <<PdfItem(currentPdf), TemplateItem(t.template, inputs)>>
           merged == mergeAdvanced(items, position)
       IN IF ~merged.ok THEN merged ELSE FoldTemplates(merged.val, templates, i + 1)

mergeWithTemplates(basePdf, templates) ==
  IF Len(templates) = 0 THEN Err("EmptyInput")
  ELSE FoldTemplates(basePdf, templates, 1)

merge(pdfs, position) ==
  LET items == [k \in 1..Len(pdfs) |-> PdfItem(pdfs[k])]
  IN mergeAdvanced(items, position)

(***************************************************************************)
(* split.                                                                  *)
(***************************************************************************)
Range(hasStart, start, hasEnd, end) ==
  [hasStart |-> hasStart, start |-> start, hasEnd |-> hasEnd, end |-> end]

\* A slip: `end` is taken as exclusive.
RECURSIVE SplitRangesExclusiveEnd(_, _, _, _)
SplitRangesExclusiveEnd(originalPdf, ranges, i, out) ==
  IF i > Len(ranges) THEN Ok(out)
  ELSE LET numPages == Len(originalPdf)
           start == IF ranges[i].hasStart THEN ranges[i].start ELSE 0
           end == IF ranges[i].hasEnd THEN ranges[i].end ELSE numPages - 1
       IN IF start < 0 \/ end >= numPages \/ start > end THEN Err("InvalidRange")
          ELSE SplitRangesExclusiveEnd(originalPdf, ranges, i + 1,
                 Append(out, Save(CopyPages(originalPdf,
                                            [k \in 1..(end - start) |-> (k - 1) + start]))))

\* A slip: the check start > end is missing.
RECURSIVE SplitRangesNoOrderCheck(_, _, _, _)
SplitRangesNoOrderCheck(originalPdf, ranges, i, out) ==
  IF i > Len(ranges) THEN Ok(out)
  ELSE LET numPages == Len(originalPdf)
           start == IF ranges[i].hasStart THEN ranges[i].start ELSE 0
           end == IF ranges[i].hasEnd THEN ranges[i].end ELSE numPages - 1
       IN IF start < 0 \/ end >= numPages THEN Err("InvalidRange")
          ELSE SplitRangesNoOrderCheck(originalPdf, ranges, i + 1,
                 Append(out, Save(CopyPages(originalPdf,
                                            [k \in 1..(end - start + 1) |-> (k - 1) + start]))))

\* A slip: the copied indices are not shifted by `start`.
RECURSIVE SplitRangesFromZero(_, _, _, _)
SplitRangesFromZero(originalPdf, ranges, i, out) ==
  IF i > Len(ranges) THEN Ok(out)
  ELSE LET numPages == Len(originalPdf)
           start == IF ranges[i].hasStart THEN ranges[i].start ELSE 0
           end == IF ranges[i].hasEnd THEN ranges[i].end ELSE numPages - 1
       IN IF start < 0 \/ end >= numPages \/ start > end THEN Err("InvalidRange")
          ELSE SplitRangesFromZero(originalPdf, ranges, i + 1,
                 Append(out, Save(CopyPages(originalPdf,
                                            [k \in 1..(end - start + 1) |-> k - 1]))))

\* The loop over the ranges (index.ts 124-138): each range is checked, then
\* its document is built and pushed, before the next range is looked at.
RECURSIVE SplitRanges(_, _, _, _)
SplitRanges(originalPdf, ranges, i, out) ==
  IF i > Len(ranges) THEN Ok(out)
  ELSE LET numPages == Len(originalPdf)
           start == IF ranges[i].hasStart THEN ranges[i].start ELSE 0
           end == IF ranges[i].hasEnd THEN ranges[i].end ELSE numPages - 1
       IN IF start < 0 \/ end >= numPages \/ start > end THEN Err("InvalidRange")
          ELSE LET newPdf == Create
                   pages == CopyPages(originalPdf, [k \in 1..(end - start + 1) |-> (k - 1) + start])
               IN SplitRanges(originalPdf, ranges, i + 1,
                              Append(out, Save(AddPages(newPdf, pages, 1))))

split(pdf, ranges) ==
  IF Len(ranges) = 0 THEN Err("EmptyInput")
  ELSE SplitRanges(Load(pdf), ranges, 1, <<>>)

(***************************************************************************)
(* remove.                                                                 *)
(***************************************************************************)
\* Array.prototype.sort with (a, b) => b - a: a sorted insertion of x.
RECURSIVE InsertDescending(_, _)
InsertDescending(sorted, x) ==
  IF sorted = <<>> THEN <<x>>
  ELSE IF Head(sorted) - x >= 0 THEN <<Head(sorted)>> \o InsertDescending(Tail(sorted), x)
  ELSE <<x>> \o sorted

RECURSIVE SortDescendingFrom(_, _, _)
SortDescendingFrom(pages, k, sorted) ==
  IF k > Len(pages) THEN sorted
  ELSE SortDescendingFrom(pages, k + 1, InsertDescending(sorted, pages[k]))

\* A slip: the indices are left in the order given.
SortDescendingUnsorted(pages) == pages

\* pages.sort((a, b) => b - a)
SortDescending(pages) == SortDescendingFrom(pages, 1, <<>>)

\* A slip: an index equal to the one removed just before is skipped.
RECURSIVE RemovePagesSkipsRepeats(_, _, _)
RemovePagesSkipsRepeats(pdfDoc, indices, k) ==
  IF k > Len(indices) THEN Ok(pdfDoc)
  ELSE IF k > 1 /\ indices[k] = indices[k - 1]
  THEN RemovePagesSkipsRepeats(pdfDoc, indices, k + 1)
  ELSE IF indices[k] < 0 \/ indices[k] >= GetPageCount(pdfDoc) THEN Err("CodecError")
  ELSE RemovePagesSkipsRepeats(RemovePage(pdfDoc, indices[k]), indices, k + 1)

\* forEach((pageIndex) => pdfDoc.removePage(pageIndex)); removePage throws
\* on an index that is not a page of the document.
RECURSIVE RemovePages(_, _, _)
RemovePages(pdfDoc, indices, k) ==
  IF k > Len(indices) THEN Ok(pdfDoc)
  ELSE IF indices[k] < 0 \/ indices[k] >= GetPageCount(pdfDoc) THEN Err("CodecError")
  ELSE RemovePages(RemovePage(pdfDoc, indices[k]), indices, k + 1)

\* A slip: the check of the empty list is missing.
removeAcceptsEmpty(pdf, pages) ==
  LET pdfDoc == Load(pdf)
      numPages == GetPageCount(pdfDoc)
  IN IF \E k \in 1..Len(pages) : pages[k] < 0 \/ pages[k] >= numPages
     THEN Err("InvalidPageNumber")
     ELSE LET removed == RemovePages(pdfDoc, SortDescending(pages), 1)
          IN IF ~removed.ok THEN removed ELSE Ok(Save(removed.val))

remove(pdf, pages) ==
  IF Len(pages) = 0 THEN Err("EmptyInput")
  ELSE LET pdfDoc == Load(pdf)
           numPages == GetPageCount(pdfDoc)
       IN IF \E k \in 1..Len(pages) : pages[k] < 0 \/ pages[k] >= numPages
          THEN Err("InvalidPageNumber")
          ELSE LET removed == RemovePages(pdfDoc, SortDescending(pages), 1)
               IN IF ~removed.ok THEN removed ELSE Ok(Save(removed.val))

(***************************************************************************)
(* insert.                                                                 *)
(***************************************************************************)
Insertion(pdf, position) == [pdf |-> pdf, position |-> position]

\* A slip: an entry goes in front of the entries of equal position, so the
\* sort is not stable.
RECURSIVE InsertByPositionBeforeEquals(_, _)
InsertByPositionBeforeEquals(sorted, x) ==
  IF sorted = <<>> THEN <<x>>
  ELSE IF Head(sorted).position - x.position < 0
       THEN <<Head(sorted)>> \o InsertByPositionBeforeEquals(Tail(sorted), x)
  ELSE <<x>> \o sorted

\* Array.prototype.sort with (a, b) => a.position - b.position; the sort is
\* stable: an entry goes after the entries whose position is not larger.
RECURSIVE InsertByPosition(_, _)
InsertByPosition(sorted, x) ==
  IF sorted = <<>> THEN <<x>>
  ELSE IF Head(sorted).position - x.position <= 0
       THEN <<Head(sorted)>> \o InsertByPosition(Tail(sorted), x)
  ELSE <<x>> \o sorted

RECURSIVE SortByPositionFrom(_, _, _)
SortByPositionFrom(inserts, k, sorted) ==
  IF k > Len(inserts) THEN sorted
  ELSE SortByPositionFrom(inserts, k + 1, InsertByPosition(sorted, inserts[k]))

\* inserts.sort((a, b) => a.position - b.position)
SortByPosition(inserts) == SortByPositionFrom(inserts, 1, <<>>)

\* One pass of the loop body (index.ts 170-204), without the offset: the
\* position is taken against the growing result.
RECURSIVE InsertLoopNoOffset(_, _, _, _)
InsertLoopNoOffset(currentPdf, inserts, i, offset) ==
  IF i > Len(inserts) THEN Ok(currentPdf)
  ELSE LET actualPos == inserts[i].position
           basePdfDoc == Load(currentPdf)
           insertDoc == Load(inserts[i].pdf)
           numPages == GetPageCount(basePdfDoc)
       IN IF actualPos < 0 \/ actualPos > numPages THEN Err("InvalidPosition")
          ELSE InsertLoopNoOffset(
                 Save(SubSeq(basePdfDoc, 1, actualPos) \o insertDoc
                      \o SubSeq(basePdfDoc, actualPos + 1, numPages)),
                 inserts, i + 1, offset)

\* A slip: the offset grows by one per applied insertion, not by the page
\* count of the inserted document.
RECURSIVE InsertLoopOffsetByOne(_, _, _, _)
InsertLoopOffsetByOne(currentPdf, inserts, i, offset) ==
  IF i > Len(inserts) THEN Ok(currentPdf)
  ELSE LET actualPos == inserts[i].position + offset
           basePdfDoc == Load(currentPdf)
           insertDoc == Load(inserts[i].pdf)
           numPages == GetPageCount(basePdfDoc)
       IN IF actualPos < 0 \/ actualPos > numPages THEN Err("InvalidPosition")
          ELSE InsertLoopOffsetByOne(
                 Save(SubSeq(basePdfDoc, 1, actualPos) \o insertDoc
                      \o SubSeq(basePdfDoc, actualPos + 1, numPages)),
                 inserts, i + 1, offset + 1)

\* A slip: the pages after the insertion point are copied from one index too
\* far, so the page at the insertion point is lost.
RECURSIVE InsertLoopSkipsPage(_, _, _, _)
InsertLoopSkipsPage(currentPdf, inserts, i, offset) ==
  IF i > Len(inserts) THEN Ok(currentPdf)
  ELSE LET actualPos == inserts[i].position + offset
           basePdfDoc == Load(currentPdf)
           insertDoc == Load(inserts[i].pdf)
           numPages == GetPageCount(basePdfDoc)
       IN IF actualPos < 0 \/ actualPos > numPages THEN Err("InvalidPosition")
          ELSE InsertLoopSkipsPage(
                 Save(SubSeq(basePdfDoc, 1, actualPos) \o insertDoc
                      \o SubSeq(basePdfDoc, actualPos + 2, numPages)),
                 inserts, i + 1, offset + GetPageCount(insertDoc))

\* The loop over the sorted insertions (index.ts 169-205).
RECURSIVE InsertLoop(_, _, _, _)
InsertLoop(currentPdf, inserts, i, offset) ==
  IF i > Len(inserts) THEN Ok(currentPdf)
  ELSE LET pdf == inserts[i].pdf
           position == inserts[i].position
           actualPos == position + offset
           basePdfDoc == Load(currentPdf)
           insertDoc == Load(pdf)
           numPages == GetPageCount(basePdfDoc)
       IN IF actualPos < 0 \/ actualPos > numPages THEN Err("InvalidPosition")
          ELSE LET newPdfDoc == Create
                   withBefore ==
                     IF actualPos > 0
                     THEN AddPages(newPdfDoc,
                            CopyPages(basePdfDoc, [k \in 1..actualPos |-> k - 1]), 1)
                     ELSE newPdfDoc
                   withInsert ==
                     AddPages(withBefore,
                              CopyPages(insertDoc, GetPageIndices(insertDoc)), 1)
                   withAfter ==
                     IF actualPos < numPages
                     THEN AddPages(withInsert,
                            CopyPages(basePdfDoc,
                              [k \in 1..(numPages - actualPos) |-> (k - 1) + actualPos]), 1)
                     ELSE withInsert
               IN InsertLoop(Save(withAfter), inserts, i + 1,
                             offset + GetPageCount(insertDoc))

\* A slip: an empty list of insertions is rejected, as merge, split, remove
\* and organize reject theirs.
insertRejectsEmpty(basePdf, inserts) ==
  IF Len(inserts) = 0 THEN Err("EmptyInput")
  ELSE LET sorted == SortByPosition(inserts)
           looped == InsertLoop(basePdf, sorted, 1, 0)
       IN IF ~looped.ok THEN looped ELSE Ok(Save(Load(looped.val)))

insert(basePdf, inserts) ==
  LET sorted == SortByPosition(inserts)
      looped == InsertLoop(basePdf, sorted, 1, 0)
  IN IF ~looped.ok THEN looped ELSE Ok(Save(Load(looped.val)))

(***************************************************************************)
(* rotate.                                                                 *)
(***************************************************************************)
SetRotation(page, angle) == [page EXCEPT !.rot = angle]

\* A slip: the angle is added to the rotation the page has.
RECURSIVE RotatePagesAdditive(_, _, _, _)
RotatePagesAdditive(pages, pagesToRotate, angle, k) ==
  IF k > Len(pagesToRotate) THEN pages
  ELSE LET pageNum == pagesToRotate[k] IN
    IF pageNum >= 0 /\ pageNum < Len(pages)
    THEN RotatePagesAdditive(
           [pages EXCEPT ![pageNum + 1] = SetRotation(@, (@.rot + angle) % 360)],
           pagesToRotate, angle, k + 1)
    ELSE RotatePagesAdditive(pages, pagesToRotate, angle, k + 1)

\* pagesToRotate.forEach(...): a page number without a page is skipped.
RECURSIVE RotatePages(_, _, _, _)
RotatePages(pages, pagesToRotate, angle, k) ==
  IF k > Len(pagesToRotate) THEN pages
  ELSE LET pageNum == pagesToRotate[k] IN
    IF pageNum >= 0 /\ pageNum < Len(pages)
    THEN RotatePages([pages EXCEPT ![pageNum + 1] = SetRotation(@, angle)],
                     pagesToRotate, angle, k + 1)
    ELSE RotatePages(pages, pagesToRotate, angle, k + 1)

\* A slip: the document is looked at before the degrees are.
rotateChecksPagesFirst(pdf, degrees, hasPageNumbers, pageNumbers) ==
  LET pages == Load(pdf) IN
  IF Len(pages) = 0 THEN Err("NoPages")
  ELSE IF hasPageNumbers
          /\ \E k \in 1..Len(pageNumbers) :
               pageNumbers[k] < 0 \/ pageNumbers[k] >= Len(pages)
  THEN Err("InvalidPageNumber")
  ELSE IF JsRem(degrees, 90) # 0 THEN Err("InvalidRotation")
  ELSE LET pagesToRotate == IF hasPageNumbers THEN pageNumbers ELSE GetPageIndices(pages)
       IN Ok(Save(RotatePages(pages, pagesToRotate,
                              JsRem(JsRem(degrees, 360) + 360, 360), 1)))

\* A slip: the degrees are set as given, not reduced modulo 360.
rotateNotNormalized(pdf, degrees, hasPageNumbers, pageNumbers) ==
  IF JsRem(degrees, 90) # 0 THEN Err("InvalidRotation")
  ELSE LET pages == Load(pdf) IN
    IF Len(pages) = 0 THEN Err("NoPages")
    ELSE IF hasPageNumbers
            /\ \E k \in 1..Len(pageNumbers) :
                 pageNumbers[k] < 0 \/ pageNumbers[k] >= Len(pages)
    THEN Err("InvalidPageNumber")
    ELSE LET pagesToRotate == IF hasPageNumbers THEN pageNumbers ELSE GetPageIndices(pages)
         IN Ok(Save(RotatePages(pages, pagesToRotate, degrees, 1)))

\* degrees is an integer here: Number.isInteger(degrees) holds.
rotate(pdf, degrees, hasPageNumbers, pageNumbers) ==
  IF JsRem(degrees, 90) # 0 THEN Err("InvalidRotation")
  ELSE LET pages == Load(pdf) IN
    IF Len(pages) = 0 THEN Err("NoPages")
    ELSE LET normalizedDegrees == JsRem(JsRem(degrees, 360) + 360, 360) IN
      IF JsRem(normalizedDegrees, 90) # 0 THEN Err("InvalidRotation")
      ELSE IF hasPageNumbers
              /\ \E k \in 1..Len(pageNumbers) :
                   pageNumbers[k] < 0 \/ pageNumbers[k] >= Len(pages)
      THEN Err("InvalidPageNumber")
      ELSE LET pagesToRotate ==
                 IF hasPageNumbers THEN pageNumbers ELSE GetPageIndices(pages)
           IN Ok(Save(RotatePages(pages, pagesToRotate,
                                  JsRem(normalizedDegrees, 360), 1)))

(***************************************************************************)
(* move.                                                                   *)
(***************************************************************************)
\* A slip: the insertion index is not adjusted for the removal.
moveNoAdjust(pdf, from, to) ==
  LET pdfDoc == Load(pdf)
      currentPageCount == GetPageCount(pdfDoc)
  IN IF from < 0 \/ from >= currentPageCount \/ to < 0 \/ to >= currentPageCount
     THEN Err("InvalidPageNumber")
     ELSE IF from = to THEN Ok(Save(pdfDoc))
     ELSE Ok(Save(InsertPage(RemovePage(pdfDoc, from), to, pdfDoc[from + 1])))

\* A slip: an index `to` outside the document is clamped into it.
moveClampsTo(pdf, from, to) ==
  LET pdfDoc == Load(pdf)
      currentPageCount == GetPageCount(pdfDoc)
      clamped == Max(0, Min(to, currentPageCount - 1))
  IN IF from < 0 \/ from >= currentPageCount THEN Err("InvalidPageNumber")
     ELSE IF from = clamped THEN Ok(Save(pdfDoc))
     ELSE LET page == pdfDoc[from + 1]
              removed == RemovePage(pdfDoc, from)
              adjustedTo == IF from < clamped THEN clamped - 1 ELSE clamped
          IN Ok(Save(InsertPage(removed, adjustedTo, page)))

move(pdf, from, to) ==
  LET pdfDoc == Load(pdf)
      currentPageCount == GetPageCount(pdfDoc)
  IN IF from < 0 \/ from >= currentPageCount \/ to < 0 \/ to >= currentPageCount
     THEN Err("InvalidPageNumber")
     ELSE IF from = to THEN Ok(Save(pdfDoc))
     ELSE LET page == pdfDoc[from + 1]
              removed == RemovePage(pdfDoc, from)
              adjustedTo == IF from < to THEN to - 1 ELSE to
          IN Ok(Save(InsertPage(removed, adjustedTo, page)))

(***************************************************************************)
(* organize.                                                               *)
(***************************************************************************)
RemoveAction(position) == [type |-> "remove", position |-> position]

InsertAction(pdf, position) == [type |-> "insert", pdf |-> pdf, position |-> position]

ReplaceAction(pdf, position) == [type |-> "replace", pdf |-> pdf, position |-> position]

RotateAction(position, degrees) ==
  [type |-> "rotate", position |-> position, degrees |-> degrees]

MoveAction(from, to) == [type |-> "move", from |-> from, to |-> to]

\* An action whose type is none of the five.
OtherAction == [type |-> "other"]

\* A slip: replace inserts into the current document, not into the one the
\* page was removed from.
DispatchReplaceKeepsTarget(currentBuffer, action) ==
  IF action.type = "remove" THEN remove(currentBuffer, <<action.position>>)
  ELSE IF action.type = "insert"
  THEN insert(currentBuffer, <<Insertion(action.pdf, action.position)>>)
  ELSE IF action.type = "replace"
  THEN LET withoutTarget == remove(currentBuffer, <<action.position>>)
       IN IF ~withoutTarget.ok THEN withoutTarget
          ELSE insert(currentBuffer, <<Insertion(action.pdf, action.position)>>)
  ELSE IF action.type = "rotate"
  THEN rotate(currentBuffer, action.degrees, TRUE, <<action.position>>)
  ELSE IF action.type = "move" THEN move(currentBuffer, action.from, action.to)
  ELSE Err("UnknownActionType")

\* The switch on the action type (index.ts 300-329), on the saved current document.
Dispatch(currentBuffer, action) ==
  IF action.type = "remove" THEN remove(currentBuffer, <<action.position>>)
  ELSE IF action.type = "insert"
  THEN insert(currentBuffer, <<Insertion(action.pdf, action.position)>>)
  ELSE IF action.type = "replace"
  THEN LET withoutTarget == remove(currentBuffer, <<action.position>>)
       IN IF ~withoutTarget.ok THEN withoutTarget
          ELSE insert(withoutTarget.val, <<Insertion(action.pdf, action.position)>>)
  ELSE IF action.type = "rotate"
  THEN rotate(currentBuffer, action.degrees, TRUE, <<action.position>>)
  ELSE IF action.type = "move" THEN move(currentBuffer, action.from, action.to)
  ELSE Err("UnknownActionType")

\* A slip: every action is applied to the document the call was given.
RECURSIVE OrganizeLoopOnInput(_, _, _)
OrganizeLoopOnInput(currentPdf, actions, i) ==
  IF i > Len(actions) THEN Ok(Save(currentPdf))
  ELSE LET done == Dispatch(Save(currentPdf), actions[i])
       IN IF ~done.ok THEN done
          ELSE IF i = Len(actions) THEN Ok(Save(Load(done.val)))
          ELSE OrganizeLoopOnInput(currentPdf, actions, i + 1)

\* A slip: a failing action ends the loop and the document organized so far
\* is returned.
RECURSIVE OrganizeLoopReturnsPartial(_, _, _)
OrganizeLoopReturnsPartial(currentPdf, actions, i) ==
  IF i > Len(actions) THEN Ok(Save(currentPdf))
  ELSE LET currentBuffer == Save(currentPdf)
           done == Dispatch(currentBuffer, actions[i])
       IN IF ~done.ok THEN Ok(Save(currentPdf))
          ELSE OrganizeLoopReturnsPartial(Load(done.val), actions, i + 1)

\* The loop over the actions (index.ts 297-332).
RECURSIVE OrganizeLoop(_, _, _)
OrganizeLoop(currentPdf, actions, i) ==
  IF i > Len(actions) THEN Ok(Save(currentPdf))
  ELSE LET currentBuffer == Save(currentPdf)
           done == Dispatch(currentBuffer, actions[i])
       IN IF ~done.ok THEN done ELSE OrganizeLoop(Load(done.val), actions, i + 1)

organize(pdf, actions) ==
  IF Len(actions) = 0 THEN Err("EmptyInput")
  ELSE OrganizeLoop(Load(pdf), actions, 1)

(***************************************************************************)
(* The steps of a call, in the order the code takes them: the checks of    *)
(* the arguments, the loads and saves of the codec, the renderings, and    *)
(* the changes made to a document (pages copied, removed, inserted,        *)
(* rotated).  `at` is the list element the step is about, 0 when it is     *)
(* about the call as a whole.                                              *)
(***************************************************************************)
Step(what, at) == [what |-> what, at |-> at]

\* The item loop of mergeAdvanced (index.ts 29-55).
RECURSIVE CollectPagesSteps(_, _)
CollectPagesSteps(items, i) ==
  IF i > Len(items) THEN <<>>
  ELSE LET item == items[i] IN
    IF item.type = "pdf" THEN
      LET srcDoc == Load(item.data)
          pageIndices == IF item.hasPages THEN item.pages ELSE GetPageIndices(srcDoc)
          maxPageIndex == GetPageCount(srcDoc) - 1
      IN <<Step("load", i), Step("validate", i)>>
         \o (IF \E k \in 1..Len(pageIndices) :
                  pageIndices[k] < 0 \/ pageIndices[k] > maxPageIndex
             THEN <<>>
             ELSE <<Step("copy", i)>> \o CollectPagesSteps(items, i + 1))
    ELSE IF item.type = "template" THEN
      <<Step("render", i), Step("load", i), Step("copy", i)>>
      \o CollectPagesSteps(items, i + 1)
    ELSE CollectPagesSteps(items, i + 1)

mergeAdvancedSteps(items) ==
  IF Len(items) = 0 THEN <<Step("checkEmpty", 0)>>
  ELSE <<Step("checkEmpty", 0), Step("create", 0)>>
       \o CollectPagesSteps(items, 1)
       \o (IF CollectPages(items, 1, <<>>).ok
           THEN <<Step("place", 0), Step("save", 0)>> ELSE <<>>)

\* The loop over the template entries (index.ts 89-100).
RECURSIVE FoldTemplatesSteps(_, _, _)
FoldTemplatesSteps(currentPdf, templates, i) ==
  IF i > Len(templates) THEN <<>>
  ELSE LET t == templates[i]
           inputs == IF t.hasInputs THEN t.inputs ELSE <<EmptyRecord>>
           position == IF t.hasPosition THEN t.position ELSE AtEnd
           items == <<PdfItem(currentPdf), TemplateItem(t.template, inputs)>>
           merged == mergeAdvanced(items, position)
       IN mergeAdvancedSteps(items)
          \o (IF ~merged.ok THEN <<>> ELSE FoldTemplatesSteps(merged.val, templates, i + 1))

mergeWithTemplatesSteps(basePdf, templates) ==
  IF Len(templates) = 0 THEN <<Step("checkEmpty", 0)>>
  ELSE <<Step("checkEmpty", 0)>> \o FoldTemplatesSteps(basePdf, templates, 1)

mergeSteps(pdfs) == mergeAdvancedSteps([k \in 1..Len(pdfs) |-> PdfItem(pdfs[k])])

\* The loop over the ranges (index.ts 124-138).
RECURSIVE SplitRangesSteps(_, _, _)
SplitRangesSteps(originalPdf, ranges, i) ==
  IF i > Len(ranges) THEN <<>>
  ELSE LET numPages == Len(originalPdf)
           start == IF ranges[i].hasStart THEN ranges[i].start ELSE 0
           end == IF ranges[i].hasEnd THEN ranges[i].end ELSE numPages - 1
       IN <<Step("validate", i)>>
          \o (IF start < 0 \/ end >= numPages \/ start > end THEN <<>>
              ELSE <<Step("create", i), Step("copy", i), Step("save", i)>>
                   \o SplitRangesSteps(originalPdf, ranges, i + 1))

splitSteps(pdf, ranges) ==
  IF Len(ranges) = 0 THEN <<Step("checkEmpty", 0)>>
  ELSE <<Step("checkEmpty", 0), Step("load", 0)>> \o SplitRangesSteps(Load(pdf), ranges, 1)

\* forEach((pageIndex) => pdfDoc.removePage(pageIndex)), up to the removal
\* that throws.
RECURSIVE RemovePagesSteps(_, _, _)
RemovePagesSteps(pdfDoc, indices, k) ==
  IF k > Len(indices) THEN <<>>
  ELSE <<Step("removePage", k)>>
       \o (IF indices[k] < 0 \/ indices[k] >= GetPageCount(pdfDoc) THEN <<>>
           ELSE RemovePagesSteps(RemovePage(pdfDoc, indices[k]), indices, k + 1))

removeSteps(pdf, pages) ==
  IF Len(pages) = 0 THEN <<Step("checkEmpty", 0)>>
  ELSE LET pdfDoc == Load(pdf)
           numPages == GetPageCount(pdfDoc)
       IN <<Step("checkEmpty", 0), Step("load", 0), Step("validate", 0)>>
          \o (IF \E k \in 1..Len(pages) : pages[k] < 0 \/ pages[k] >= numPages
              THEN <<>>
              ELSE <<Step("sort", 0)>>
                   \o RemovePagesSteps(pdfDoc, SortDescending(pages), 1)
                   \o (IF RemovePages(pdfDoc, SortDescending(pages), 1).ok
                       THEN <<Step("save", 0)>> ELSE <<>>))

\* The loop over the sorted insertions (index.ts 169-205).
RECURSIVE InsertLoopSteps(_, _, _, _)
InsertLoopSteps(currentPdf, inserts, i, offset) ==
  IF i > Len(inserts) THEN <<>>
  ELSE LET actualPos == inserts[i].position + offset
           insertDoc == Load(inserts[i].pdf)
           numPages == GetPageCount(Load(currentPdf))
       IN <<Step("load", i), Step("validate", i)>>
          \o (IF actualPos < 0 \/ actualPos > numPages THEN <<>>
              ELSE <<Step("create", i), Step("copy", i), Step("save", i)>>
                   \o InsertLoopSteps(InsertLoop(currentPdf, <<inserts[i]>>, 1, offset).val,
                                      inserts, i + 1, offset + GetPageCount(insertDoc)))

insertSteps(basePdf, inserts) ==
  <<Step("sort", 0)>>
  \o InsertLoopSteps(basePdf, SortByPosition(inserts), 1, 0)
  \o (IF InsertLoop(basePdf, SortByPosition(inserts), 1, 0).ok
      THEN <<Step("load", 0), Step("save", 0)>> ELSE <<>>)

rotateSteps(pdf, degrees, hasPageNumbers, pageNumbers) ==
  <<Step("validate", 0)>>
  \o (IF JsRem(degrees, 90) # 0 THEN <<>>
      ELSE LET pages == Load(pdf) IN
        <<Step("load", 0), Step("validate", 0)>>
        \o (IF Len(pages) = 0 THEN <<>>
            ELSE <<Step("validate", 0)>>
                 \o (IF hasPageNumbers
                        /\ \E k \in 1..Len(pageNumbers) :
                             pageNumbers[k] < 0 \/ pageNumbers[k] >= Len(pages)
                     THEN <<>>
                     ELSE LET pagesToRotate ==
                                IF hasPageNumbers THEN pageNumbers ELSE GetPageIndices(pages)
                          IN [k \in 1..Len(pagesToRotate) |-> Step("setRotation", k)]
                             \o <<Step("save", 0)>>)))

moveSteps(pdf, from, to) ==
  LET currentPageCount == GetPageCount(Load(pdf))
  IN <<Step("load", 0), Step("validate", 0)>>
     \o (IF from < 0 \/ from >= currentPageCount \/ to < 0 \/ to >= currentPageCount
         THEN <<>>
         ELSE IF from = to THEN <<Step("save", 0)>>
         ELSE <<Step("removePage", 0), Step("insertPage", 0), Step("save", 0)>>)

\* The switch on the action type (index.ts 300-329).
DispatchSteps(currentBuffer, action) ==
  IF action.type = "remove" THEN removeSteps(currentBuffer, <<action.position>>)
  ELSE IF action.type = "insert"
  THEN insertSteps(currentBuffer, <<Insertion(action.pdf, action.position)>>)
  ELSE IF action.type = "replace"
  THEN LET withoutTarget == remove(currentBuffer, <<action.position>>)
       IN removeSteps(currentBuffer, <<action.position>>)
          \o (IF ~withoutTarget.ok THEN <<>>
              ELSE insertSteps(withoutTarget.val, <<Insertion(action.pdf, action.position)>>))
  ELSE IF action.type = "rotate"
  THEN rotateSteps(currentBuffer, action.degrees, TRUE, <<action.position>>)
  ELSE IF action.type = "move" THEN moveSteps(currentBuffer, action.from, action.to)
  ELSE <<>>

\* The loop over the actions (index.ts 297-332).
RECURSIVE OrganizeLoopSteps(_, _, _)
OrganizeLoopSteps(currentPdf, actions, i) ==
  IF i > Len(actions) THEN <<Step("save", 0)>>
  ELSE LET currentBuffer == Save(currentPdf)
           done == Dispatch(currentBuffer, actions[i])
       IN <<Step("save", i)>>
          \o DispatchSteps(currentBuffer, actions[i])
          \o (IF ~done.ok THEN <<>>
              ELSE <<Step("load", i)>> \o OrganizeLoopSteps(Load(done.val), actions, i + 1))

organizeSteps(pdf, actions) ==
  IF Len(actions) = 0 THEN <<Step("checkEmpty", 0)>>
  ELSE <<Step("checkEmpty", 0), Step("load", 0)>> \o OrganizeLoopSteps(Load(pdf), actions, 1)

(***************************************************************************)
(* What a call leaves of the objects it was given.  The codec parses a     *)
(* buffer into a document of its own and serializes into a new buffer, so  *)
(* the buffers stay as they were; Array.prototype.sort sorts the caller's  *)
(* array in place.                                                         *)
(***************************************************************************)
removeArgsAfter(pdf, pages) ==
  LET numPages == GetPageCount(Load(pdf))
  IN [pdf |-> pdf,
      pages |-> IF Len(pages) = 0 \/ \E k \in 1..Len(pages) : pages[k] < 0 \/ pages[k] >= numPages
                THEN pages ELSE SortDescending(pages)]

insertArgsAfter(basePdf, inserts) ==
  [basePdf |-> basePdf, inserts |-> SortByPosition(inserts)]

\* A slip: the rotation is written to the caller's document.
rotateArgsAfterInPlace(pdf, degrees, hasPageNumbers, pageNumbers) ==
  LET done == rotate(pdf, degrees, hasPageNumbers, pageNumbers)
  IN [pdf |-> IF done.ok THEN done.val ELSE pdf, degrees |-> degrees,
      hasPageNumbers |-> hasPageNumbers, pageNumbers |-> pageNumbers]

\* rotate works on the document PDFDocument.load(pdf) returns.
rotateArgsAfter(pdf, degrees, hasPageNumbers, pageNumbers) ==
  [pdf |-> pdf, degrees |-> degrees,
   hasPageNumbers |-> hasPageNumbers, pageNumbers |-> pageNumbers]

(***************************************************************************)

(* The calls.  The arguments are drawn from bounded sets; the document of  *)
(* a call is created in source "A", the k-th document of a list in the     *)
(* k-th source of SrcNames and the k-th template is the k-th of TplNames,  *)
(* so that every page of the result tells where it was copied from.        *)
(***************************************************************************)
SrcNames == <<"B", "C", "D", "E">>

TplNames == <<"T1", "T2", "T3", "T4">>

\* The sequences of length len whose k-th element is drawn from sets[k].
RECURSIVE SeqsOfLen(_, _)
SeqsOfLen(sets, len) ==
  IF len = 0 THEN {<<>>}
  ELSE LET shorter == SeqsOfLen(sets, len - 1)
           last == sets[len]
       IN {s \o <<x>> : s \in shorter, x \in last}

\* The first n values of f, as a tuple.
RECURSIVE TupleOf(_, _)
TupleOf(f, n) == IF n = 0 THEN <<>> ELSE Append(TupleOf(f, n - 1), f[n])

\* The sequences of length 0..maxLen whose k-th element is drawn from sets[k].
SeqsUpTo(sets, maxLen) ==
  LET tuple == TupleOf(sets, maxLen)
  IN UNION {SeqsOfLen(tuple, len) : len \in 0..maxLen}

BaseDocs == {Save(MkDoc("A", n)) : n \in 0..MaxPages}

SmallBaseDocs == {Save(MkDoc("A", n)) : n \in 0..MaxSrcPages}

\* The document of an organize call; its remove actions leave the shorter ones.
NonEmptySmallDocs == {Save(MkDoc("A", MaxSrcPages))}

SrcDocsAt(k) == {Save(MkDoc(SrcNames[k], n)) : n \in 0..MaxSrcPages}

NonEmptySrcDocsAt(k) == {Save(MkDoc(SrcNames[k], n)) : n \in 1..MaxSrcPages}

Positions == {AtStart, AtEnd} \cup {AtIndex(i) : i \in (0 - 1)..(MaxPages + 1)}

\* The page lists of an item on a document of n pages: none, one index
\* (valid or just outside), or two valid indices, the larger one first.
Selections(n) ==
  {<<>>} \cup {<<i>> : i \in (0 - 1)..n}
  \cup {q \in (0..(n - 1)) \X (0..(n - 1)) : q[1] > q[2]}

InputLists == {<<2, 1>>}

ItemsAt(k) ==
  UNION {{PdfItem(d)} \cup {PdfItemPages(d, sel) : sel \in Selections(Len(Load(d)))}
           : d \in NonEmptySrcDocsAt(k)}
  \cup {TemplateItemNoInputs(TplNames[k])}
  \cup {TemplateItem(TplNames[k], in) : in \in InputLists}

TemplateEntry(template, hasInputs, inputs, hasPosition, position) ==
  [template |-> template, hasInputs |-> hasInputs, inputs |-> inputs,
   hasPosition |-> hasPosition, position |-> position]

EntryPositions == {AtStart, AtEnd} \cup {AtIndex(i) : i \in (0 - 1)..(MaxSrcPages + 1)}

EntriesAt(k) ==
  {TemplateEntry(TplNames[k], FALSE, <<>>, TRUE, p) : p \in {AtEnd, AtIndex(1)}}
  \cup {TemplateEntry(TplNames[k], TRUE, in, TRUE, p) : in \in InputLists, p \in EntryPositions}
  \cup {TemplateEntry(TplNames[k], TRUE, in, FALSE, AtEnd) : in \in InputLists}

RangesOf(n) ==
  {Range(hs, st, he, en) : hs \in {TRUE}, st \in (0 - 1)..(n - 1), he \in {TRUE}, en \in (0 - 1)..n}
  \cup {Range(FALSE, 0, TRUE, en) : en \in (0 - 1)..n}
  \cup {Range(TRUE, st, FALSE, 0) : st \in (0 - 1)..(n - 1)}
  \cup {Range(FALSE, 0, FALSE, 0)}

IndexLists(n, maxLen) ==
  UNION {[1..len -> (0 - 1)..n] : len \in 0..maxLen}

InsertionsAt(n, k) ==
  {Insertion(Save(MkDoc(SrcNames[k], m)), p) : m \in 1..2, p \in (0 - 1)..(n + 1)}

Degrees == {0, 90, 180, 270, 360, 45, 0 - 90, 450}

ActionPositions == 0..(MaxSrcPages - 1)

ActionsAt(k) ==
  {RemoveAction(p) : p \in ActionPositions}
  \cup {InsertAction(Save(MkDoc(SrcNames[k], 2)), p) : p \in ActionPositions}
  \cup {ReplaceAction(Save(MkDoc(SrcNames[k], 2)), p) : p \in ActionPositions}
  \cup {RotateAction(p, 90) : p \in ActionPositions}
  \cup {RotateAction(0, 45)}
  \cup {MoveAction(q[1], q[2]) : q \in {r \in ActionPositions \X ActionPositions : r[1] # r[2]}}
  \cup {OtherAction}

NoArgs == [none |-> TRUE]

Init ==
  /\ op = "idle"
  /\ args = NoArgs
  /\ result = Err("none")
  /\ steps = <<>>
  /\ argsAfter = NoArgs
  /\ calls = <<>>
  /\ frames = <<>>
  /\ arrays = <<>>
  /\ overlap = FALSE

Merge ==
  /\ op = "idle"
  /\ \E pdfs \in SeqsUpTo([k \in 1..MaxItems |-> SrcDocsAt(k)], MaxItems), position \in Positions :
       /\ op' = "merge"
       /\ args' = [pdfs |-> pdfs, position |-> position]
       /\ result' = merge(pdfs, position)
       /\ steps' = mergeSteps(pdfs)
       /\ argsAfter' = args'
  /\ UNCHANGED cvars

MergeAdvanced ==
  /\ op = "idle"
  /\ \E items \in SeqsUpTo([k \in 1..MaxItems |-> ItemsAt(k)], MaxItems), position \in {AtStart, AtIndex(1)} :
       /\ op' = "mergeAdvanced"
       /\ args' = [items |-> items, position |-> position]
       /\ result' = mergeAdvanced(items, position)
       /\ steps' = mergeAdvancedSteps(items)
       /\ argsAfter' = args'
  /\ UNCHANGED cvars

MergeWithTemplates ==
  /\ op = "idle"
  /\ \E basePdf \in SmallBaseDocs, templates \in SeqsUpTo([k \in 1..MaxItems |-> EntriesAt(k)], MaxItems) :
       /\ op' = "mergeWithTemplates"
       /\ args' = [basePdf |-> basePdf, templates |-> templates]
       /\ result' = mergeWithTemplates(basePdf, templates)
       /\ steps' = mergeWithTemplatesSteps(basePdf, templates)
       /\ argsAfter' = args'
  /\ UNCHANGED cvars

Split ==
  /\ op = "idle"
  /\ \E pdf \in SmallBaseDocs :
       \E ranges \in SeqsUpTo([k \in 1..MaxItems |-> RangesOf(Len(Load(pdf)))], MaxItems) :
         /\ op' = "split"
         /\ args' = [pdf |-> pdf, ranges |-> ranges]
         /\ result' = split(pdf, ranges)
         /\ steps' = splitSteps(pdf, ranges)
         /\ argsAfter' = args'
  /\ UNCHANGED cvars

Remove ==
  /\ op = "idle"
  /\ \E pdf \in BaseDocs :
       \E pages \in IndexLists(Len(Load(pdf)), MaxItems + 1) :
         /\ op' = "remove"
         /\ args' = [pdf |-> pdf, pages |-> pages]
         /\ result' = remove(pdf, pages)
         /\ steps' = removeSteps(pdf, pages)
         /\ argsAfter' = removeArgsAfter(pdf, pages)
  /\ UNCHANGED cvars

Insert ==
  /\ op = "idle"
  /\ \E basePdf \in BaseDocs :
       \E inserts \in SeqsUpTo([k \in 1..MaxItems |->
                                  InsertionsAt(Len(Load(basePdf)), k)], MaxItems) :
         /\ op' = "insert"
         /\ args' = [basePdf |-> basePdf, inserts |-> inserts]
         /\ result' = insert(basePdf, inserts)
         /\ steps' = insertSteps(basePdf, inserts)
         /\ argsAfter' = insertArgsAfter(basePdf, inserts)
  /\ UNCHANGED cvars

Rotate ==
  /\ op = "idle"
  /\ \E pdf \in BaseDocs, degrees \in Degrees, hasPageNumbers \in BOOLEAN :
       \E pageNumbers \in IF hasPageNumbers
                          THEN IndexLists(Len(Load(pdf)), MaxItems) ELSE {<<>>} :
         /\ op' = "rotate"
         /\ args' = [pdf |-> pdf, degrees |-> degrees,
                     hasPageNumbers |-> hasPageNumbers, pageNumbers |-> pageNumbers]
         /\ result' = rotate(pdf, degrees, hasPageNumbers, pageNumbers)
         /\ steps' = rotateSteps(pdf, degrees, hasPageNumbers, pageNumbers)
         /\ argsAfter' = rotateArgsAfter(pdf, degrees, hasPageNumbers, pageNumbers)
  /\ UNCHANGED cvars

Move ==
  /\ op = "idle"
  /\ \E pdf \in BaseDocs, from \in (0 - 1)..(MaxPages + 1), to \in (0 - 1)..(MaxPages + 1) :
       /\ op' = "move"
       /\ args' = [pdf |-> pdf, from |-> from, to |-> to]
       /\ result' = move(pdf, from, to)
       /\ steps' = moveSteps(pdf, from, to)
       /\ argsAfter' = args'
  /\ UNCHANGED cvars

Organize ==
  /\ op = "idle"
  /\ \E pdf \in NonEmptySmallDocs, actions \in SeqsUpTo([k \in 1..MaxActions |-> ActionsAt(k)], MaxActions) :
       /\ op' = "organize"
       /\ args' = [pdf |-> pdf, actions |-> actions]
       /\ result' = organize(pdf, actions)
       /\ steps' = organizeSteps(pdf, actions)
       /\ argsAfter' = args'
  /\ UNCHANGED cvars

Next ==
  \/ Merge
  \/ MergeAdvanced
  \/ MergeWithTemplates
  \/ Split
  \/ Remove
  \/ Insert
  \/ Rotate
  \/ Move
  \/ Organize

Spec == Init /\ [][Next]_vars

(***************************************************************************)
(* Calls in flight together.  insert and organize are async functions: a   *)
(* call runs until its next await (a codec load or save, or a call of      *)
(* another operation), and other calls may run before it resumes.  A step  *)
(* of a call is the code from one await to the next.  The awaits of one    *)
(* loop body that touch only the constants of the body (the loads, create  *)
(* and copyPages of insert; the operation organize dispatches to, which    *)
(* runs in invocations of its own) are one step.                           *)
(***************************************************************************)
\* How many calls run at once.
NumCalls == 2

Calls == 1..NumCalls

\* The document call c is given: its own buffer.
BaseOf(c) == Save(MkDoc(SrcNames[c], MaxSrcPages))

InsertedDoc(k) == Save(MkDoc(TplNames[k], 1))

\* Insertions in an order the sort has to change.
InsertScript ==
  [k \in 1..MaxItems |->
     Insertion(InsertedDoc(k), IF k % 2 = 1 THEN MaxSrcPages ELSE 0)]

InsertLists ==
  {SubSeq(InsertScript, 1, len) : len \in 0..MaxItems}
  \cup {<<Insertion(InsertedDoc(1), MaxSrcPages + 1)>>}

ActionScript ==
  [k \in 1..MaxActions |->
     IF k % 3 = 1 THEN InsertAction(InsertedDoc(k), 0)
     ELSE IF k % 3 = 2 THEN MoveAction(1, 0)
     ELSE RotateAction(0, 90)]

ActionLists ==
  {SubSeq(ActionScript, 1, len) : len \in 0..MaxActions}
  \cup {<<OtherAction>>}

\* What a suspended call waits for: the buffer being loaded or saved, the
\* entry or action of the loop body, and the offset read for it.
Pending(item, offset, buffer) == [item |-> item, offset |-> offset, buffer |-> buffer]

\* A call not yet begun: list is what the caller's array held when the
\* calls were made, array is where that array lives.
Call(kind, pdf, list, array) ==
  [kind |-> kind, pdf |-> pdf, list |-> list, array |-> array, pc |-> "start",
   pending |-> Pending(NoArgs, 0, Save(<<>>)), result |-> Err("none")]

\* The locals of one invocation of insert (let currentPdf, let offset,
\* let i) and of organize (let currentPdf, the iterator of for-of).
NewFrame ==
  [insert |-> [currentPdf |-> Save(<<>>), offset |-> 0, i |-> 0],
   organize |-> [currentPdf |-> <<>>, i |-> 0]]

\* A slip: the locals are declared outside the functions, so all calls use
\* the same ones.
FrameOfModule(c) == 1

\* The locals are declared inside the function body: every invocation has
\* its own.
Frame(c) == c

\* Which array each call is given: its own, or, for an insert call, the
\* array an earlier insert call was given.
Owners(kinds) ==
  {owner \in [Calls -> Calls] :
     \A c \in Calls :
       \/ owner[c] = c
       \/ /\ owner[c] < c
          /\ owner[owner[c]] = owner[c]
          /\ kinds[c] = "insert"
          /\ kinds[owner[c]] = "insert"}

ListsFor(kinds, owner) ==
  {lists \in [Calls -> InsertLists \cup ActionLists] :
     \A c \in Calls :
       IF owner[c] # c THEN lists[c] = <<>>
       ELSE IF kinds[c] = "insert" THEN lists[c] \in InsertLists
       ELSE lists[c] \in ActionLists}

InitConcurrent ==
  /\ op = "idle"
  /\ args = NoArgs
  /\ result = Err("none")
  /\ steps = <<>>
  /\ argsAfter = NoArgs
  /\ \E kinds \in [Calls -> {"insert", "organize"}] :
       \E owner \in Owners(kinds) :
         \E lists \in ListsFor(kinds, owner) :
           /\ calls = [c \in Calls |->
                         Call(kinds[c], BaseOf(c), lists[owner[c]], owner[c])]
           /\ arrays = lists
  /\ frames = [c \in Calls |-> NewFrame]
  /\ overlap = FALSE

\* Call c runs while another call is suspended in the middle of its work.
Overlaps(c) ==
  overlap \/ \E d \in Calls \ {c} : calls[d].pc \notin {"start", "done"}

\* insert, from the loop test to the next await: `i < inserts.length`, the
\* entry and actualPos of the body and the load of currentPdf (169-173), or,
\* after the loop, the load of line 207.
InsertAwaitLoad(call, locals, inserts) ==
  IF locals.i < Len(inserts)
  THEN [call EXCEPT !.pc = "loadBase",
                    !.pending = Pending(inserts[locals.i + 1], locals.offset,
                                        locals.currentPdf)]
  ELSE [call EXCEPT !.pc = "finalLoad",
                    !.pending = Pending(NoArgs, 0, locals.currentPdf)]

\* The call of insert up to its first await (164-173): the caller's array is
\* sorted in place.
InsertBegin(c) ==
  /\ calls[c].kind = "insert"
  /\ calls[c].pc = "start"
  /\ LET a == calls[c].array
         sorted == SortByPosition(arrays[a])
         locals == [currentPdf |-> calls[c].pdf, offset |-> 0, i |-> 0]
     IN /\ arrays' = [arrays EXCEPT ![a] = sorted]
        /\ frames' = [frames EXCEPT ![Frame(c)].insert = locals]
        /\ calls' = [calls EXCEPT ![c] = InsertAwaitLoad(calls[c], locals, sorted)]
  /\ overlap' = Overlaps(c)
  /\ UNCHANGED svars

\* The loop body from the loaded base document to the save of the new one
\* (173-201): the position is checked and the new document is built.
InsertBuild(c) ==
  /\ calls[c].kind = "insert"
  /\ calls[c].pc = "loadBase"
  /\ LET p == calls[c].pending
         built == InsertLoop(p.buffer, <<p.item>>, 1, p.offset)
     IN calls' = IF ~built.ok
                 THEN [calls EXCEPT ![c].pc = "done", ![c].result = built]
                 ELSE [calls EXCEPT ![c].pc = "save",
                                    ![c].pending = Pending(p.item, p.offset, built.val)]
  /\ overlap' = Overlaps(c)
  /\ UNCHANGED <<frames, arrays>>
  /\ UNCHANGED svars

\* The saved document becomes currentPdf, the offset grows, i++ (201-203),
\* and the next pass begins.
InsertAdvance(c) ==
  /\ calls[c].kind = "insert"
  /\ calls[c].pc = "save"
  /\ LET p == calls[c].pending
         old == frames[Frame(c)].insert
         locals == [currentPdf |-> p.buffer,
                    offset |-> old.offset + GetPageCount(Load(p.item.pdf)),
                    i |-> old.i + 1]
     IN /\ frames' = [frames EXCEPT ![Frame(c)].insert = locals]
        /\ calls' = [calls EXCEPT
                       ![c] = InsertAwaitLoad(calls[c], locals, arrays[calls[c].array])]
  /\ overlap' = Overlaps(c)
  /\ UNCHANGED arrays
  /\ UNCHANGED svars

\* return pdfDoc.save() (207-208).
InsertReturn(c) ==
  /\ calls[c].kind = "insert"
  /\ calls[c].pc = "finalLoad"
  /\ calls' = [calls EXCEPT ![c].pc = "done",
                            ![c].result = Ok(Save(Load(calls[c].pending.buffer)))]
  /\ overlap' = Overlaps(c)
  /\ UNCHANGED <<frames, arrays>>
  /\ UNCHANGED svars

\* organize, from the loop test to the next await: the next action and the
\* save of currentPdf (297-298), or, after the loop, the save of line 332.
OrganizeAwaitSave(call, locals, actions) ==
  IF locals.i < Len(actions)
  THEN [call EXCEPT !.pc = "saveCurrent",
                    !.pending = Pending(actions[locals.i + 1], 0, Save(locals.currentPdf))]
  ELSE [call EXCEPT !.pc = "returning",
                    !.pending = Pending(NoArgs, 0, Save(locals.currentPdf))]

\* The call of organize up to its first await (291-295).
OrganizeBegin(c) ==
  /\ calls[c].kind = "organize"
  /\ calls[c].pc = "start"
  /\ calls' = IF Len(arrays[calls[c].array]) = 0
              THEN [calls EXCEPT ![c].pc = "done", ![c].result = Err("EmptyInput")]
              ELSE [calls EXCEPT ![c].pc = "loadInput",
                                 ![c].pending = Pending(NoArgs, 0, calls[c].pdf)]
  /\ overlap' = Overlaps(c)
  /\ UNCHANGED <<frames, arrays>>
  /\ UNCHANGED svars

\* let currentPdf = await PDFDocument.load(pdf), and the first pass begins.
OrganizeLoaded(c) ==
  /\ calls[c].kind = "organize"
  /\ calls[c].pc = "loadInput"
  /\ LET locals == [currentPdf |-> Load(calls[c].pending.buffer), i |-> 0]
     IN /\ frames' = [frames EXCEPT ![Frame(c)].organize = locals]
        /\ calls' = [calls EXCEPT
                       ![c] = OrganizeAwaitSave(calls[c], locals, arrays[calls[c].array])]
  /\ overlap' = Overlaps(c)
  /\ UNCHANGED arrays
  /\ UNCHANGED svars

\* const currentBuffer = await currentPdf.save(), and the operation of the
\* action is called (298-324).
OrganizeDispatch(c) ==
  /\ calls[c].kind = "organize"
  /\ calls[c].pc = "saveCurrent"
  /\ calls' = [calls EXCEPT ![c].pc = "dispatched"]
  /\ overlap' = Overlaps(c)
  /\ UNCHANGED <<frames, arrays>>
  /\ UNCHANGED svars

\* The operation has returned: its error ends the call, its document is
\* loaded into currentPdf and the next pass begins.
OrganizeAdvance(c) ==
  /\ calls[c].kind = "organize"
  /\ calls[c].pc = "dispatched"
  /\ LET p == calls[c].pending
         done == Dispatch(p.buffer, p.item)
         locals == [currentPdf |-> Load(done.val),
                    i |-> frames[Frame(c)].organize.i + 1]
     IN IF ~done.ok
        THEN /\ calls' = [calls EXCEPT ![c].pc = "done", ![c].result = done]
             /\ UNCHANGED frames
        ELSE /\ frames' = [frames EXCEPT ![Frame(c)].organize = locals]
             /\ calls' = [calls EXCEPT
                            ![c] = OrganizeAwaitSave(calls[c], locals,
                                                     arrays[calls[c].array])]
  /\ overlap' = Overlaps(c)
  /\ UNCHANGED arrays
  /\ UNCHANGED svars

\* return currentPdf.save() (332).
OrganizeReturn(c) ==
  /\ calls[c].kind = "organize"
  /\ calls[c].pc = "returning"
  /\ calls' = [calls EXCEPT ![c].pc = "done", ![c].result = Ok(calls[c].pending.buffer)]
  /\ overlap' = Overlaps(c)
  /\ UNCHANGED <<frames, arrays>>
  /\ UNCHANGED svars

NextConcurrent ==
  \/ \E c \in Calls : InsertBegin(c)
  \/ \E c \in Calls : InsertBuild(c)
  \/ \E c \in Calls : InsertAdvance(c)
  \/ \E c \in Calls : InsertReturn(c)
  \/ \E c \in Calls : OrganizeBegin(c)
  \/ \E c \in Calls : OrganizeLoaded(c)
  \/ \E c \in Calls : OrganizeDispatch(c)
  \/ \E c \in Calls : OrganizeAdvance(c)
  \/ \E c \in Calls : OrganizeReturn(c)

SpecConcurrent == InitConcurrent /\ [][NextConcurrent]_vars

(***************************************************************************)
(* The claims.                                                             *)
(***************************************************************************)
\* The pages of the document a successful call returned.
ResultPages == Load(result.val)

RECURSIVE ConcatDocs(_)
ConcatDocs(pdfs) ==
  IF pdfs = <<>> THEN <<>> ELSE Load(Head(pdfs)) \o ConcatDocs(Tail(pdfs))

RECURSIVE SumPageCounts(_)
SumPageCounts(pdfs) ==
  IF pdfs = <<>> THEN 0 ELSE Len(Load(Head(pdfs))) + SumPageCounts(Tail(pdfs))

\* C1: for every non-empty list of source documents merge returns the
\* concatenation of the sources' full page sequences in argument order: the
\* page count is the sum of the source page counts, and for merge([A, B]) the
\* first pageCount(A) pages are A's pages in order, followed by B's.
C1_MergeConcatenates ==
  (op = "merge" /\ Len(args.pdfs) > 0) =>
    /\ result.ok
    /\ ResultPages = ConcatDocs(args.pdfs)
    /\ Len(ResultPages) = SumPageCounts(args.pdfs)
    /\ Len(args.pdfs) = 2 =>
         LET A == Load(args.pdfs[1])
             B == Load(args.pdfs[2])
         IN /\ SubSeq(ResultPages, 1, Len(A)) = A
            /\ SubSeq(ResultPages, Len(A) + 1, Len(ResultPages)) = B

C1_Witness ==
  /\ op = "merge"
  /\ Len(args.pdfs) = 2
  /\ Len(Load(args.pdfs[1])) = 2
  /\ Len(Load(args.pdfs[2])) = 1
  /\ result.ok
  /\ Len(ResultPages) = 3

\* The pages an item contributes: the pages named in `pages` in the order
\* given (all pages without `pages`), or one rendered page per input record.
ItemPages(item) ==
  IF item.type = "pdf"
  THEN IF item.hasPages
       THEN [k \in 1..Len(item.pages) |-> Load(item.data)[item.pages[k] + 1]]
       ELSE Load(item.data)
  ELSE IF item.hasInputs
       THEN [j \in 1..Len(item.inputs) |-> Page(item.data, item.inputs[j], 0)]
       ELSE <<Page(item.data, EmptyRecord, 0)>>

ItemIndicesValid(item) ==
  (item.type = "pdf" /\ item.hasPages) =>
    \A k \in 1..Len(item.pages) :
      item.pages[k] >= 0 /\ item.pages[k] <= Len(Load(item.data)) - 1

RECURSIVE ConcatItems(_)
ConcatItems(items) ==
  IF items = <<>> THEN <<>> ELSE ItemPages(Head(items)) \o ConcatItems(Tail(items))

RECURSIVE SumItemCounts(_)
SumItemCounts(items) ==
  IF items = <<>> THEN 0 ELSE Len(ItemPages(Head(items))) + SumItemCounts(Tail(items))

\* C2: for every non-empty item list whose page indices are all valid,
\* mergeAdvanced returns the concatenation, in item-list order, of each item's
\* copied pages, and the output page count is the sum of the copied counts.
C2_MergeAdvancedConcatenates ==
  (/\ op = "mergeAdvanced"
   /\ Len(args.items) > 0
   /\ \A k \in 1..Len(args.items) : ItemIndicesValid(args.items[k])) =>
    /\ result.ok
    /\ ResultPages = ConcatItems(args.items)
    /\ Len(ResultPages) = SumItemCounts(args.items)

C2_Witness ==
  /\ op = "mergeAdvanced"
  /\ Len(args.items) = 2
  /\ args.items[1].type = "pdf"
  /\ args.items[1].hasPages
  /\ args.items[1].pages = <<1, 0>>
  /\ args.items[2].type = "template"
  /\ args.items[2].hasInputs
  /\ result.ok
  /\ Len(ResultPages) = 4

\* The index a position names in a document of n pages.
ResolvePosition(position, n) ==
  IF position.kind = "start" THEN 0
  ELSE IF position.kind = "end" THEN n
  ELSE Min(Max(0, position.index), n)

\* The document the last entry of a mergeWithTemplates call is applied to.
LastEntryBase ==
  IF Len(args.templates) = 1 THEN Load(args.basePdf)
  ELSE Load(mergeWithTemplates(args.basePdf,
                               SubSeq(args.templates, 1, Len(args.templates) - 1)).val)

LastEntryRendered ==
  LET t == args.templates[Len(args.templates)]
  IN IF t.hasInputs THEN [j \in 1..Len(t.inputs) |-> Page(t.template, t.inputs[j], 0)]
     ELSE <<Page(t.template, EmptyRecord, 0)>>

LastEntryPosition ==
  LET t == args.templates[Len(args.templates)]
  IN IF t.hasPosition THEN t.position ELSE AtEnd

\* C3: in mergeWithTemplates an entry's position determines where its
\* rendered pages land among the pages of the current result: 0 or 'start'
\* before all of them, 'end' after all of them, an integer k starting at
\* index k.
C3_PositionPlacesTemplatePages ==
  (/\ op = "mergeWithTemplates"
   /\ Len(args.templates) > 0
   /\ result.ok
   /\ LastEntryPosition.kind = "index" =>
        (LastEntryPosition.index >= 0 /\ LastEntryPosition.index <= Len(LastEntryBase))) =>
    LET cur == LastEntryBase
        at == ResolvePosition(LastEntryPosition, Len(cur))
    IN ResultPages = SubSeq(cur, 1, at) \o LastEntryRendered \o SubSeq(cur, at + 1, Len(cur))

\* The positions of a single merge call: both words and every integer from
\* below 0 to above the largest total page count.
AllPositions ==
  {AtStart, AtEnd} \cup {AtIndex(i) : i \in (0 - 1)..(MaxItems * MaxSrcPages + 1)}

\* C4: for a single mergeAdvanced or merge call the position has no
\* observable effect: 'start', 'end' and every integer, negative and beyond
\* the total page count included, give the same outcome.
C4_PositionHasNoEffect ==
  /\ op = "mergeAdvanced" => \A p \in AllPositions : mergeAdvanced(args.items, p) = result
  /\ op = "merge" => \A p \in AllPositions : merge(args.pdfs, p) = result

C4_Witness ==
  /\ op = "mergeAdvanced"
  /\ args.position = AtIndex(1)
  /\ Len(args.items) = 2
  /\ result.ok
  /\ Len(ResultPages) = 3
  /\ mergeAdvanced(args.items, AtStart) = result

RECURSIVE SumInsertCounts(_)
SumInsertCounts(inserts) ==
  IF inserts = <<>> THEN 0
  ELSE Len(Load(Head(inserts).pdf)) + SumInsertCounts(Tail(inserts))

InsertPositionsValid ==
  \A j \in 1..Len(args.inserts) :
    args.inserts[j].position >= 0 /\ args.inserts[j].position <= Len(Load(args.basePdf))

\* The pages of the base document among the pages of a document.
BasePagesOf(pages) == SelectSeq(pages, LAMBDA pg : pg.src = "A")

\* The block stands in res from index s on, immediately before the page that
\* was at original index p of base, or at the end when p is the page count.
BlockBeforeOriginal(res, s, block, base, p) ==
  /\ s + Len(block) - 1 <= Len(res)
  /\ SubSeq(res, s, s + Len(block) - 1) = block
  /\ IF p < Len(base)
     THEN s + Len(block) <= Len(res) /\ res[s + Len(block)] = base[p + 1]
     ELSE s + Len(block) - 1 = Len(res)

\* C5 as stated: every entry's pages stand as a contiguous block immediately
\* before the page that was at original index p (or at the end when p is the
\* original page count), whatever the other insertions.
C5_EveryBlockImmediatelyBefore ==
  (op = "insert" /\ InsertPositionsValid) =>
    /\ result.ok
    /\ Len(ResultPages) = Len(Load(args.basePdf)) + SumInsertCounts(args.inserts)
    /\ BasePagesOf(ResultPages) = Load(args.basePdf)
    /\ \A j \in 1..Len(args.inserts) :
         \E s \in 1..(Len(ResultPages) + 1) :
           BlockBeforeOriginal(ResultPages, s, Load(args.inserts[j].pdf),
                               Load(args.basePdf), args.inserts[j].position)

\* The documents of the entries whose position is p, in input-list order.
RECURSIVE BlocksAt(_, _)
BlocksAt(inserts, p) ==
  IF inserts = <<>> THEN <<>>
  ELSE (IF Head(inserts).position = p THEN Load(Head(inserts).pdf) ELSE <<>>)
       \o BlocksAt(Tail(inserts), p)

\* From original index p on: the blocks placed at p, then the page at p.
RECURSIVE InsertedFrom(_, _, _)
InsertedFrom(base, inserts, p) ==
  IF p > Len(base) THEN <<>>
  ELSE BlocksAt(inserts, p)
       \o (IF p < Len(base) THEN <<base[p + 1]>> ELSE <<>>)
       \o InsertedFrom(base, inserts, p + 1)

\* C5 (amended): with all positions in [0, original page count] insert
\* returns the base pages in their original order with, between original
\* pages p-1 and p, the blocks of the entries whose position is p; an entry
\* that alone has position p stands immediately before original page p (at
\* the end when p is the page count), entries sharing p stand one after the
\* other in input-list order; positions count against the original base.
C5_BlocksBetweenOriginalPages ==
  (op = "insert" /\ InsertPositionsValid) =>
    /\ result.ok
    /\ Len(ResultPages) = Len(Load(args.basePdf)) + SumInsertCounts(args.inserts)
    /\ BasePagesOf(ResultPages) = Load(args.basePdf)
    /\ ResultPages = InsertedFrom(Load(args.basePdf), args.inserts, 0)
    /\ \A j \in 1..Len(args.inserts) :
         (\A i \in 1..Len(args.inserts) :
            i # j => args.inserts[i].position # args.inserts[j].position) =>
         \E s \in 1..(Len(ResultPages) + 1) :
           BlockBeforeOriginal(ResultPages, s, Load(args.inserts[j].pdf),
                               Load(args.basePdf), args.inserts[j].position)

C5_Witness ==
  /\ op = "insert"
  /\ Len(Load(args.basePdf)) = 3
  /\ Len(args.inserts) = 2
  /\ args.inserts[1].position = 2
  /\ args.inserts[2].position = 1
  /\ Len(Load(args.inserts[2].pdf)) = 2
  /\ result.ok
  /\ Len(ResultPages) = 3 + SumInsertCounts(args.inserts)

SeqRange(s) == {s[k] : k \in 1..Len(s)}

IndicesDistinct(s) == \A i, j \in 1..Len(s) : i # j => s[i] # s[j]

IndicesValid(s, n) == \A k \in 1..Len(s) : s[k] >= 0 /\ s[k] <= n - 1

\* The pages of doc whose index is kept, in their original order.
KeptPages(doc, removed) ==
  LET F[k \in 0..Len(doc)] ==
        IF k = 0 THEN <<>>
        ELSE IF (k - 1) \in removed THEN F[k - 1] ELSE Append(F[k - 1], doc[k])
  IN F[Len(doc)]

\* C6: for every list of pairwise distinct valid indices remove returns
\* exactly the original pages whose index is not listed, in their original
\* order; the count drops by the number of indices, and the order in which
\* the indices are listed does not matter.
C6_RemoveKeepsTheOthers ==
  (/\ op = "remove"
   /\ Len(args.pages) > 0
   /\ IndicesDistinct(args.pages)
   /\ IndicesValid(args.pages, Len(Load(args.pdf)))) =>
    /\ result.ok
    /\ ResultPages = KeptPages(Load(args.pdf), SeqRange(args.pages))
    /\ Len(ResultPages) = Len(Load(args.pdf)) - Len(args.pages)
    /\ \A other \in IndexLists(Len(Load(args.pdf)), Len(args.pages)) :
         (Len(other) = Len(args.pages) /\ SeqRange(other) = SeqRange(args.pages)) =>
           remove(args.pdf, other) = result

C6_Witness ==
  /\ op = "remove"
  /\ Len(Load(args.pdf)) = 3
  /\ args.pages = <<0, 2>>
  /\ result.ok
  /\ Len(ResultPages) = 1

\* The sequence s without its i-th element.
Without(s, i) == [k \in 1..(Len(s) - 1) |-> IF k < i THEN s[k] ELSE s[k + 1]]

MoveValid ==
  /\ args.from >= 0 /\ args.from <= Len(Load(args.pdf)) - 1
  /\ args.to >= 0 /\ args.to <= Len(Load(args.pdf)) - 1

C8_MovedPageIsAtTo ==
  (op = "move" /\ MoveValid /\ result.ok) =>
    ResultPages[args.to + 1] = Load(args.pdf)[args.from + 1]

\* The atomic operation an organize action of one of the four plain types
\* stands for, applied to the document cur.
Atomic(cur, action) ==
  IF action.type = "remove" THEN remove(cur, <<action.position>>)
  ELSE IF action.type = "insert" THEN insert(cur, <<Insertion(action.pdf, action.position)>>)
  ELSE IF action.type = "rotate" THEN rotate(cur, action.degrees, TRUE, <<action.position>>)
  ELSE move(cur, action.from, action.to)

\* The atomic operations applied one after the other, each to the document
\* the one before it returned.
RECURSIVE Sequential(_, _)
Sequential(cur, actions) ==
  LET first == Atomic(cur, Head(actions))
  IN IF Len(actions) = 1 \/ ~first.ok THEN first
     ELSE Sequential(first.val, Tail(actions))

PlainActions ==
  \A k \in 1..Len(args.actions) :
    args.actions[k].type \in {"remove", "insert", "rotate", "move"}

\* C9: for every non-empty list of remove, insert, rotate and move actions
\* organize returns what the atomic operations return when applied one after
\* the other in list order, each to the document the previous one produced;
\* on a document of at least 2 pages [remove 0, rotate 0 by 90] yields the
\* original pages 1.. with the original page 1 rotated to 90, one page less.
C9_OrganizeIsSequentialComposition ==
  /\ (op = "organize" /\ Len(args.actions) > 0 /\ PlainActions) =>
       result = Sequential(args.pdf, args.actions)
  /\ (/\ op = "organize"
      /\ args.actions = <<RemoveAction(0), RotateAction(0, 90)>>
      /\ Len(Load(args.pdf)) >= 2) =>
       LET D == Load(args.pdf)
       IN /\ result.ok
          /\ ResultPages = <<[D[2] EXCEPT !.rot = 90]>> \o SubSeq(D, 3, Len(D))
          /\ Len(ResultPages) = Len(D) - 1

C9_Witness ==
  /\ op = "organize"
  /\ args.actions = <<RemoveAction(0), RotateAction(0, 90)>>
  /\ Len(Load(args.pdf)) = 2
  /\ result.ok
  /\ Len(ResultPages) = 1
  /\ ResultPages[1].idx = 1
  /\ ResultPages[1].rot = 90

\* The outcome of the actions before the last one of an organize call.
BeforeLastAction ==
  IF Len(args.actions) = 1 THEN Ok(args.pdf)
  ELSE organize(args.pdf, SubSeq(args.actions, 1, Len(args.actions) - 1))

\* C10: a replace action with position in [0, pageCount-1] takes the page at
\* `position` out of the current document and puts the replacement's pages in
\* the vacated slot, from index `position` on; the other pages keep their
\* order and the count becomes pageCount - 1 + pageCount(replacement).
C10_ReplaceFillsTheVacatedSlot ==
  (/\ op = "organize"
   /\ Len(args.actions) > 0
   /\ args.actions[Len(args.actions)].type = "replace"
   /\ BeforeLastAction.ok
   /\ args.actions[Len(args.actions)].position >= 0
   /\ args.actions[Len(args.actions)].position <= Len(Load(BeforeLastAction.val)) - 1) =>
    LET cur == Load(BeforeLastAction.val)
        a == args.actions[Len(args.actions)]
        replacement == Load(a.pdf)
    IN /\ result.ok
       /\ ResultPages = SubSeq(cur, 1, a.position) \o replacement
                        \o SubSeq(cur, a.position + 2, Len(cur))
       /\ Len(ResultPages) = Len(cur) - 1 + Len(replacement)

C10_Witness ==
  /\ op = "organize"
  /\ Len(Load(args.pdf)) = 2
  /\ args.actions = <<ReplaceAction(Save(MkDoc("B", 2)), 1)>>
  /\ result.ok
  /\ Len(ResultPages) = 3
  /\ ResultPages[1].src = "A"
  /\ ResultPages[2].src = "B"

\* The outcome of the k-th action of an organize call, applied to what the
\* actions before it produced; an error once one of them has failed.
RECURSIVE ActionOutcome(_, _, _)
ActionOutcome(pdf, actions, k) ==
  IF k = 1 THEN Dispatch(pdf, actions[1])
  ELSE LET before == ActionOutcome(pdf, actions, k - 1)
       IN IF ~before.ok THEN before ELSE Dispatch(before.val, actions[k])

\* The action of an organize call that fails on the document the actions
\* before it produced, all of which were applied.
FailingAction(k) ==
  /\ k \in 1..Len(args.actions)
  /\ ~ActionOutcome(args.pdf, args.actions, k).ok
  /\ k > 1 => ActionOutcome(args.pdf, args.actions, k - 1).ok

ErrorNames ==
  {"EmptyInput", "InvalidPageIndex", "InvalidRange", "InvalidPosition", "InvalidRotation",
   "InvalidPageNumber", "NoPages", "UnknownActionType", "CodecError"}

\* C11: when an action of an organize call fails (invalid index, invalid
\* position, invalid rotation, unknown type) the call ends in that action's
\* error and returns no document, also when earlier actions were applied; and
\* a call of any operation either returns a value or ends in an error, never
\* both.
C11_FailedActionFailsTheCall ==
  /\ op = "organize" =>
       \A k \in 1..Len(args.actions) :
         FailingAction(k) =>
           /\ ~result.ok
           /\ result.val = <<>>
           /\ result.err = ActionOutcome(args.pdf, args.actions, k).err
  /\ op = "organize" =>
       (result.ok <=> (/\ Len(args.actions) > 0
                       /\ \A k \in 1..Len(args.actions) :
                            ActionOutcome(args.pdf, args.actions, k).ok))
  /\ op # "idle" =>
       IF result.ok THEN result.err = "none"
       ELSE result.val = <<>> /\ result.err \in ErrorNames

C11_Witness ==
  /\ op = "organize"
  /\ Len(Load(args.pdf)) = 2
  /\ args.actions = <<RemoveAction(0), RemoveAction(1)>>
  /\ ActionOutcome(args.pdf, args.actions, 1).ok
  /\ FailingAction(2)
  /\ ~result.ok
  /\ result.err = "InvalidPageNumber"

\* clamp(p, 0, n)
Clamp(p, n) == Min(Max(0, p), n)

ClampedPosition(position, n) ==
  IF position.kind = "index" THEN AtIndex(Clamp(position.index, n)) ELSE position

\* The entries of a mergeWithTemplates call, each integer position clamped
\* into [0, page count of the result the entry is applied to]; n is the page
\* count of the document the first of them is applied to.
RECURSIVE ClampedEntries(_, _)
ClampedEntries(templates, n) ==
  IF templates = <<>> THEN <<>>
  ELSE LET t == Head(templates)
           rendered == IF t.hasInputs THEN Len(t.inputs) ELSE 1
       IN <<[t EXCEPT !.position = ClampedPosition(t.position, n)]>>
          \o ClampedEntries(Tail(templates), n + rendered)

\* The insertions with every position clamped into [0, n].
ClampedInserts(inserts, n) ==
  [j \in 1..Len(inserts) |-> Insertion(inserts[j].pdf, Clamp(inserts[j].position, n))]

\* In merge, mergeAdvanced and mergeWithTemplates an integer position is
\* never rejected and acts as the position clamped into [0, page count].
MergePositionsClamped ==
  /\ (op = "merge" /\ Len(args.pdfs) > 0 /\ args.position.kind = "index") =>
       /\ result.ok
       /\ result = merge(args.pdfs, ClampedPosition(args.position, 0))
       /\ result = merge(args.pdfs, ClampedPosition(args.position, SumPageCounts(args.pdfs)))
  /\ (/\ op = "mergeAdvanced"
      /\ Len(args.items) > 0
      /\ \A k \in 1..Len(args.items) : ItemIndicesValid(args.items[k])
      /\ args.position.kind = "index") =>
       /\ result.ok
       /\ result = mergeAdvanced(args.items, ClampedPosition(args.position, 0))
       /\ result = mergeAdvanced(args.items,
                                 ClampedPosition(args.position, SumItemCounts(args.items)))
  /\ (op = "mergeWithTemplates" /\ Len(args.templates) > 0) =>
       /\ result.ok
       /\ result = mergeWithTemplates(args.basePdf,
                      ClampedEntries(args.templates, Len(Load(args.basePdf))))

LastAction == args.actions[Len(args.actions)]

\* The last action of an organize call is an insert and the actions before
\* it were applied.
LastActionInserts ==
  /\ op = "organize"
  /\ Len(args.actions) > 0
  /\ LastAction.type = "insert"
  /\ BeforeLastAction.ok

\* C12 as stated: an integer insertion position is clamped into
\* [0, pageCount] and never rejected, in merge, mergeAdvanced,
\* mergeWithTemplates, insert and organize's insert: a negative position acts
\* as 0, one above the page count as the page count, and the call succeeds.
C12_IntegerPositionIsClamped ==
  /\ MergePositionsClamped
  /\ op = "insert" =>
       /\ result.ok
       /\ result = insert(args.basePdf,
                          ClampedInserts(args.inserts, Len(Load(args.basePdf))))
  /\ LastActionInserts =>
       /\ result.ok
       /\ result = insert(BeforeLastAction.val,
                          <<Insertion(LastAction.pdf,
                                      Clamp(LastAction.position,
                                            Len(Load(BeforeLastAction.val))))>>)

\* C12 (amended): in merge, mergeAdvanced and mergeWithTemplates an integer
\* position is clamped into [0, pageCount] and never rejected; in insert and
\* in organize's insert a position outside [0, pageCount] is rejected with
\* "Invalid position" and a position inside is used as it is.
C12_ClampedInMergeRejectedInInsert ==
  /\ MergePositionsClamped
  /\ op = "insert" =>
       IF InsertPositionsValid THEN result.ok
       ELSE ~result.ok /\ result.err = "InvalidPosition"
  /\ LastActionInserts =>
       IF LastAction.position >= 0
          /\ LastAction.position <= Len(Load(BeforeLastAction.val))
       THEN /\ result.ok
            /\ result = insert(BeforeLastAction.val,
                               <<Insertion(LastAction.pdf, LastAction.position)>>)
       ELSE ~result.ok /\ result.err = "InvalidPosition"

C12_Witness ==
  /\ op = "insert"
  /\ Len(Load(args.basePdf)) = 2
  /\ Len(args.inserts) = 1
  /\ args.inserts[1].position = 3
  /\ ~result.ok
  /\ result.err = "InvalidPosition"
  /\ insert(args.basePdf, ClampedInserts(args.inserts, 2)).ok

\* The insertions of the call in the order the loop applies them.
SortedInserts == SortByPosition(args.inserts)

\* What the loop has built when it enters iteration i + 1: the outcome of
\* the first i sorted insertions.
AfterInserts(i) == InsertLoop(args.basePdf, SubSeq(SortedInserts, 1, i), 1, 0)

\* The value of `offset` when the loop enters iteration i + 1: the page
\* counts of the i documents inserted so far (index.ts 204).
OffsetAfter(i) == SumInsertCounts(SubSeq(SortedInserts, 1, i))

\* C13: insert fails with "Invalid position" if and only if some entry's
\* stated position is outside [0, original base page count]: at every
\* iteration the loop enters, offset is the page count of the growing result
\* minus the original page count, so the check of position + offset against
\* the growing result is the check of the stated position against the
\* original document.
C13_InvalidPositionIffOutsideOriginal ==
  op = "insert" =>
    LET n == Len(Load(args.basePdf)) IN
    /\ IF InsertPositionsValid THEN result.ok
       ELSE ~result.ok /\ result.err = "InvalidPosition"
    /\ \A i \in 0..(Len(args.inserts) - 1) :
         AfterInserts(i).ok =>
           LET numPages == Len(Load(AfterInserts(i).val))
               position == SortedInserts[i + 1].position
               actualPos == position + OffsetAfter(i)
           IN /\ OffsetAfter(i) = numPages - n
              /\ (actualPos < 0 \/ actualPos > numPages) <=> (position < 0 \/ position > n)
              /\ AfterInserts(i + 1).ok <=> (position >= 0 /\ position <= n)

C13_Witness ==
  /\ op = "insert"
  /\ Len(Load(args.basePdf)) = 2
  /\ Len(args.inserts) = 2
  /\ args.inserts[1].position = 3
  /\ args.inserts[2].position = 1
  /\ Len(Load(args.inserts[2].pdf)) = 2
  /\ AfterInserts(1).ok
  /\ OffsetAfter(1) = 2
  /\ ~result.ok
  /\ result.err = "InvalidPosition"

\* The bounds of a range with the defaults applied: start 0, end the last
\* page index of a document of n pages.
RangeStart(r) == IF r.hasStart THEN r.start ELSE 0

RangeEnd(r, n) == IF r.hasEnd THEN r.end ELSE n - 1

\* start > end, or a bound outside [0, n - 1].
RangeInvalid(r, n) ==
  \/ RangeStart(r) > RangeEnd(r, n)
  \/ RangeStart(r) < 0 \/ RangeStart(r) > n - 1
  \/ RangeEnd(r, n) < 0 \/ RangeEnd(r, n) > n - 1

RangesValid ==
  \A k \in 1..Len(args.ranges) : ~RangeInvalid(args.ranges[k], Len(Load(args.pdf)))

\* C14: for every non-empty list of valid ranges split returns one document
\* per range, in range-list order, the k-th holding exactly the source pages
\* start..end (inclusive) of the k-th range in original order; a range's
\* output does not depend on the other ranges, so overlapping and repeated
\* ranges each yield their full output.
C14_OneOutputPerRange ==
  (op = "split" /\ Len(args.ranges) > 0 /\ RangesValid) =>
    LET D == Load(args.pdf) IN
    /\ result.ok
    /\ Len(result.val) = Len(args.ranges)
    /\ \A k \in 1..Len(args.ranges) :
         LET r == args.ranges[k]
         IN /\ Load(result.val[k]) = SubSeq(D, RangeStart(r) + 1, RangeEnd(r, Len(D)) + 1)
            /\ Len(Load(result.val[k])) = RangeEnd(r, Len(D)) - RangeStart(r) + 1
            /\ <<result.val[k]>> = split(args.pdf, <<r>>).val

C14_Witness ==
  /\ op = "split"
  /\ Len(Load(args.pdf)) = 2
  /\ args.ranges = <<Range(TRUE, 0, TRUE, 1), Range(TRUE, 1, FALSE, 0)>>
  /\ result.ok
  /\ Len(result.val) = 2
  /\ Len(Load(result.val[1])) = 2
  /\ Load(result.val[2]) = <<Load(args.pdf)[2]>>

MathMod(a, b) == IF a >= 0 THEN a % b ELSE (b - ((0 - a) % b)) % b

\* The page indices a rotate call selects: those listed, or all pages when
\* no list is given.
SelectedPages ==
  IF args.hasPageNumbers THEN SeqRange(args.pageNumbers)
  ELSE 0..(Len(Load(args.pdf)) - 1)

\* A rotate call on a document with pages, with a multiple of 90 and a list
\* (if given) of valid page indices.
RotateValid ==
  /\ op = "rotate"
  /\ MathMod(args.degrees, 90) = 0
  /\ Len(Load(args.pdf)) > 0
  /\ args.hasPageNumbers => IndicesValid(args.pageNumbers, Len(Load(args.pdf)))

\* C16: rotate sets the rotation of every selected page (all pages without a
\* page list) to degrees mod 360, one of 0, 90, 180, 270, whatever rotation
\* the page had; the other pages keep their rotation; the page count and the
\* page order do not change.
C16_RotateSetsAbsoluteRotation ==
  RotateValid =>
    LET D == Load(args.pdf) IN
    /\ result.ok
    /\ MathMod(args.degrees, 360) \in {0, 90, 180, 270}
    /\ Len(ResultPages) = Len(D)
    /\ \A k \in 1..Len(D) :
         /\ ResultPages[k].src = D[k].src
         /\ ResultPages[k].idx = D[k].idx
         /\ ResultPages[k].rot = IF (k - 1) \in SelectedPages
                                 THEN MathMod(args.degrees, 360) ELSE D[k].rot

C16_Witness ==
  /\ op = "rotate"
  /\ Len(Load(args.pdf)) = 3
  /\ args.degrees = 0 - 90
  /\ args.hasPageNumbers
  /\ args.pageNumbers = <<0>>
  /\ result.ok
  /\ Load(args.pdf)[1].rot = 180
  /\ ResultPages[1].rot = 270
  /\ ResultPages[3].rot = Load(args.pdf)[3].rot

\* C17: rotate fails with InvalidRotation for every degrees that is not a
\* multiple of 90, on any document and any page list, the check coming before
\* every other check; every multiple of 90 is accepted, 360 and the negative
\* ones included, and 360 sets the rotation 0.
C17_InvalidRotationIsCheckedFirst ==
  op = "rotate" =>
    /\ MathMod(args.degrees, 90) # 0 => (~result.ok /\ result.err = "InvalidRotation")
    /\ MathMod(args.degrees, 90) = 0 => result.err # "InvalidRotation"
    /\ RotateValid => result.ok
    /\ (RotateValid /\ args.degrees = 360) =>
         \A k \in 1..Len(ResultPages) : (k - 1) \in SelectedPages => ResultPages[k].rot = 0

C17_Witness ==
  /\ op = "rotate"
  /\ Len(Load(args.pdf)) = 0
  /\ args.degrees = 45
  /\ args.hasPageNumbers
  /\ args.pageNumbers = <<0>>
  /\ ~result.ok
  /\ result.err = "InvalidRotation"

\* C18: rotate is idempotent: rotating the result of a successful call again,
\* by the same degrees on the same pages, returns that result; and rotating
\* by 360 returns what rotating by 0 returns.
C18_RotateIsIdempotent ==
  op = "rotate" =>
    /\ result.ok =>
         rotate(result.val, args.degrees, args.hasPageNumbers, args.pageNumbers) = result
    /\ rotate(args.pdf, 360, args.hasPageNumbers, args.pageNumbers)
         = rotate(args.pdf, 0, args.hasPageNumbers, args.pageNumbers)
    /\ args.degrees \in {0, 360} =>
         result = rotate(args.pdf, 360 - args.degrees, args.hasPageNumbers, args.pageNumbers)

C18_Witness ==
  /\ op = "rotate"
  /\ Len(Load(args.pdf)) = 2
  /\ args.degrees = 360
  /\ ~args.hasPageNumbers
  /\ result.ok
  /\ ResultPages # Load(args.pdf)
  /\ ResultPages[1].rot = 0
  /\ rotate(result.val, 360, FALSE, <<>>) = result

\* The ranges, defaults applied, cut the page indices 0..n-1 into consecutive
\* non-empty pieces: the first starts at 0, each next one starts right after
\* the one before it, the last ends at n - 1.
IsPartition(ranges, n) ==
  /\ Len(ranges) > 0
  /\ RangeStart(ranges[1]) = 0
  /\ RangeEnd(ranges[Len(ranges)], n) = n - 1
  /\ \A k \in 1..Len(ranges) : RangeStart(ranges[k]) <= RangeEnd(ranges[k], n)
  /\ \A k \in 1..(Len(ranges) - 1) : RangeStart(ranges[k + 1]) = RangeEnd(ranges[k], n) + 1

\* C19: for every partition of a document's page indices into consecutive
\* ranges, merging the outputs of split in order gives back the document's
\* page sequence: the same pages, in the same order, with the same rotations.
C19_SplitThenMergeRestores ==
  (op = "split" /\ IsPartition(args.ranges, Len(Load(args.pdf)))) =>
    /\ result.ok
    /\ merge(result.val, AtEnd).ok
    /\ Load(merge(result.val, AtEnd).val) = Load(args.pdf)

C19_Witness ==
  /\ op = "split"
  /\ Len(Load(args.pdf)) = 2
  /\ args.ranges = <<Range(TRUE, 0, TRUE, 0), Range(TRUE, 1, TRUE, 1)>>
  /\ IsPartition(args.ranges, 2)
  /\ result.ok
  /\ Len(result.val) = 2
  /\ Load(merge(result.val, AtEnd).val) = Load(args.pdf)

\* The one-page document holding the page at index i of the document of a
\* remove call.
RemovedPageDoc(i) == Save(<<Load(args.pdf)[i + 1]>>)

\* C20: for every valid index i, removing page i and then inserting a
\* one-page document holding that page at position i into the result gives
\* back the document's page sequence: insert(remove(D, [i]), [{page_i, i}])
\* has the pages of D, in D's order.
C20_RemoveThenInsertRestores ==
  (/\ op = "remove"
   /\ Len(args.pages) = 1
   /\ IndicesValid(args.pages, Len(Load(args.pdf)))) =>
    LET i == args.pages[1]
        back == insert(result.val, <<Insertion(RemovedPageDoc(i), i)>>)
    IN /\ result.ok
       /\ back.ok
       /\ Len(Load(back.val)) = Len(Load(args.pdf))
       /\ Load(back.val) = Load(args.pdf)

C20_Witness ==
  /\ op = "remove"
  /\ Len(Load(args.pdf)) = 3
  /\ args.pages = <<1>>
  /\ result.ok
  /\ Len(ResultPages) = 2
  /\ Load(insert(result.val, <<Insertion(RemovedPageDoc(1), 1)>>).val) = Load(args.pdf)

\* The number of pages an entry renders: one per input record, one from a
\* single empty record without inputs.
RenderedCount(t) == IF t.hasInputs THEN Len(t.inputs) ELSE 1

RECURSIVE SumRenderedCounts(_)
SumRenderedCounts(templates) ==
  IF templates = <<>> THEN 0
  ELSE RenderedCount(Head(templates)) + SumRenderedCounts(Tail(templates))

\* The result after the first k entries of a mergeWithTemplates call: the
\* base document, then each entry's two-item merge of the result before it
\* with the entry's template.
RECURSIVE ResultAfterEntries(_)
ResultAfterEntries(k) ==
  IF k = 0 THEN Ok(args.basePdf)
  ELSE LET t == args.templates[k]
           before == ResultAfterEntries(k - 1)
       IN mergeAdvanced(<<PdfItem(before.val),
                          IF t.hasInputs THEN TemplateItem(t.template, t.inputs)
                          ELSE TemplateItemNoInputs(t.template)>>,
                        IF t.hasPosition THEN t.position ELSE AtEnd)

\* C21: mergeWithTemplates applies its entries in list order as a left fold,
\* each entry merging the result of the entry before it (the base document
\* for the first) with its rendered pages; the final page count is the base
\* page count plus the rendered pages of all entries, and an entry without
\* inputs renders one page from a single empty record.
C21_TemplatesAreFoldedInOrder ==
  (op = "mergeWithTemplates" /\ Len(args.templates) > 0) =>
    /\ result.ok
    /\ result = ResultAfterEntries(Len(args.templates))
    /\ Len(ResultPages) = Len(Load(args.basePdf)) + SumRenderedCounts(args.templates)
    /\ \A k \in 1..Len(args.templates) :
         LET t == args.templates[k]
             before == Load(ResultAfterEntries(k - 1).val)
             after == Load(ResultAfterEntries(k).val)
         IN /\ Len(after) = Len(before) + RenderedCount(t)
            /\ BasePagesOf(after) = Load(args.basePdf)
            /\ ~t.hasInputs =>
                 SelectSeq(after, LAMBDA pg : pg.src = t.template)
                   = <<Page(t.template, EmptyRecord, 0)>>

C21_Witness ==
  /\ op = "mergeWithTemplates"
  /\ Len(Load(args.basePdf)) = 2
  /\ Len(args.templates) = 2
  /\ ~args.templates[1].hasInputs
  /\ args.templates[2].hasInputs
  /\ Len(args.templates[2].inputs) = 2
  /\ result.ok
  /\ Len(ResultPages) = 5

\* The error of a page index that names no page: "Invalid page index" in
\* mergeAdvanced, "Invalid page number" in remove, rotate and move.
PageIndexErrors == {"InvalidPageIndex", "InvalidPageNumber"}

OutsideDocument(i, n) == i < 0 \/ i > n - 1

\* A call that names a page that does not exist: remove, rotate with a page
\* list, move, or mergeAdvanced with an item's `pages`.
NamesMissingPage ==
  \/ /\ op = "remove"
     /\ \E k \in 1..Len(args.pages) : OutsideDocument(args.pages[k], Len(Load(args.pdf)))
  \/ /\ op = "rotate"
     /\ args.hasPageNumbers
     /\ \E k \in 1..Len(args.pageNumbers) :
          OutsideDocument(args.pageNumbers[k], Len(Load(args.pdf)))
  \/ /\ op = "move"
     /\ \/ OutsideDocument(args.from, Len(Load(args.pdf)))
        \/ OutsideDocument(args.to, Len(Load(args.pdf)))
  \/ /\ op = "mergeAdvanced"
     /\ \E k \in 1..Len(args.items) : ~ItemIndicesValid(args.items[k])

\* The last action of an organize call, applied after the actions before it,
\* is a remove, rotate, move or replace naming a page the current document
\* does not have.
LastActionNamesMissingPage ==
  /\ op = "organize"
  /\ Len(args.actions) > 0
  /\ BeforeLastAction.ok
  /\ LET n == Len(Load(BeforeLastAction.val))
     IN \/ /\ LastAction.type \in {"remove", "rotate", "replace"}
           /\ OutsideDocument(LastAction.position, n)
        \/ /\ LastAction.type = "move"
           /\ OutsideDocument(LastAction.from, n) \/ OutsideDocument(LastAction.to, n)

\* C22 as stated: a page index naming an existing page is never clamped:
\* remove, rotate with a page list, move, mergeAdvanced (an item's pages) and
\* organize's remove, rotate, move and replace fail with an invalid-page-index
\* error whenever a referenced index is outside [0, pageCount-1], pageCount
\* itself included, and nothing is returned.
C22_MissingPageIsInvalidPageIndex ==
  (NamesMissingPage \/ LastActionNamesMissingPage) =>
    /\ ~result.ok
    /\ result.val = <<>>
    /\ result.err \in PageIndexErrors

\* The error rotate reports for a page list naming a missing page: the
\* degrees and the empty document are looked at first.
RotateErrorFor(degrees, n) ==
  IF MathMod(degrees, 90) # 0 THEN {"InvalidRotation"}
  ELSE IF n = 0 THEN {"NoPages"}
  ELSE PageIndexErrors

\* C22 (amended): as stated, except that rotate and organize's rotate report
\* a degrees value that is not a multiple of 90 and a document without pages
\* before they look at the page list: the call still fails and returns
\* nothing, with the rotation error or the no-pages error.
C22_MissingPageFailsTheCall ==
  /\ NamesMissingPage =>
       /\ ~result.ok
       /\ result.val = <<>>
       /\ result.err \in IF op = "rotate"
                         THEN RotateErrorFor(args.degrees, Len(Load(args.pdf)))
                         ELSE PageIndexErrors
  /\ LastActionNamesMissingPage =>
       /\ ~result.ok
       /\ result.val = <<>>
       /\ result.err \in IF LastAction.type = "rotate"
                         THEN RotateErrorFor(LastAction.degrees,
                                             Len(Load(BeforeLastAction.val)))
                         ELSE PageIndexErrors

C22_Witness ==
  /\ op = "move"
  /\ Len(Load(args.pdf)) = 3
  /\ args.from = 0
  /\ args.to = 3
  /\ ~result.ok
  /\ result.err = "InvalidPageNumber"

\* The list argument of a call of one of the six operations that reject an
\* empty list.
ListArgument ==
  IF op = "merge" THEN args.pdfs
  ELSE IF op = "mergeAdvanced" THEN args.items
  ELSE IF op = "mergeWithTemplates" THEN args.templates
  ELSE IF op = "split" THEN args.ranges
  ELSE IF op = "remove" THEN args.pages
  ELSE args.actions

RejectsEmptyList ==
  op \in {"merge", "mergeAdvanced", "mergeWithTemplates", "split", "remove", "organize"}

\* C23: merge, mergeAdvanced, mergeWithTemplates, split, remove and organize
\* fail with EmptyInput when their list argument is empty, and only then; the
\* check is the first step of the call: no document has been loaded and no
\* page copied when it fails.
C23_EmptyListIsRejectedFirst ==
  RejectsEmptyList =>
    /\ steps # <<>>
    /\ steps[1] = Step("checkEmpty", 0)
    /\ IF ListArgument = <<>>
       THEN /\ ~result.ok
            /\ result.err = "EmptyInput"
            /\ result.val = <<>>
            /\ steps = <<Step("checkEmpty", 0)>>
       ELSE result.err # "EmptyInput"

C23_Witness ==
  /\ op = "remove"
  /\ Len(Load(args.pdf)) = 0
  /\ args.pages = <<>>
  /\ ~result.ok
  /\ result.err = "EmptyInput"
  /\ steps = <<Step("checkEmpty", 0)>>

\* A check of the call's arguments.
IsValidation(st) == st.what \in {"checkEmpty", "validate"}

\* A change to a document or the production of an output: pages copied,
\* placed, removed, inserted or rotated, a document serialized.
IsMutation(st) == st.what \in {"copy", "place", "removePage", "insertPage", "setRotation", "save"}

\* No check of the arguments comes after a change or an output.
ValidationBeforeMutation(s) ==
  \A a, b \in 1..Len(s) : (a < b /\ IsMutation(s[a])) => ~IsValidation(s[b])

\* C24: in split, insert, mergeAdvanced, remove, rotate and move every check
\* of the call's arguments is made before the first change to a document and
\* before the first output is produced: split checks every range
\* before it builds the first output, insert every entry before the first
\* insertion, mergeAdvanced every item's page indices before it copies a page.
C24_AllValidationBeforeAnyMutation ==
  op \in {"split", "insert", "mergeAdvanced", "remove", "rotate", "move"} =>
    ValidationBeforeMutation(steps)

\* What call c returns when it is the only call.
AloneResult(c) ==
  IF calls[c].kind = "insert" THEN insert(calls[c].pdf, calls[c].list)
  ELSE organize(calls[c].pdf, calls[c].list)

\* C25: calls on different input buffers, interleaved at their suspension
\* points, do not interfere: every call that has ended returned exactly
\* what it returns when run alone.
C25_ConcurrentCallsDoNotInterfere ==
  \A c \in DOMAIN calls :
    calls[c].pc = "done" => calls[c].result = AloneResult(c)

C25_Witness ==
  /\ overlap
  /\ calls # <<>>
  /\ \A c \in DOMAIN calls : calls[c].pc = "done" /\ calls[c].result.ok
  /\ \E c \in DOMAIN calls :
       /\ calls[c].kind = "insert"
       /\ Len(calls[c].list) = MaxItems
       /\ Len(Load(calls[c].result.val)) = MaxSrcPages + MaxItems
  /\ \E c \in DOMAIN calls :
       /\ calls[c].kind = "organize"
       /\ Len(calls[c].list) = MaxActions

\* The document buffers among the arguments a of a call of operation o.
DocsOf(o, a) ==
  IF o = "merge" THEN SeqRange(a.pdfs)
  ELSE IF o = "mergeAdvanced"
  THEN {a.items[k].data : k \in {j \in 1..Len(a.items) : a.items[j].type = "pdf"}}
  ELSE IF o = "mergeWithTemplates" THEN {a.basePdf}
  ELSE IF o = "insert" THEN {a.basePdf} \cup {a.inserts[k].pdf : k \in 1..Len(a.inserts)}
  ELSE IF o = "organize"
  THEN {a.pdf} \cup {a.actions[k].pdf :
                       k \in {j \in 1..Len(a.actions) : a.actions[j].type \in {"insert", "replace"}}}
  ELSE {a.pdf}

RemoveWithRepeats ==
  /\ op = "remove"
  /\ Len(args.pages) > 0
  /\ IndicesValid(args.pages, Len(Load(args.pdf)))
  /\ ~IndicesDistinct(args.pages)

\* The number of entries of s that are >= x.
CountAtLeast(s, x) == Cardinality({k \in 1..Len(s) : s[k] >= x})

\* Every entry still names a page when its turn comes: the entries being
\* removed from the largest down, the document has lost one page for every
\* entry removed before.
EveryRemovalFits(pages, n) ==
  \A x \in 0..(n - 1) : CountAtLeast(pages, x) <= n - x

\* C27 as stated: with a repeated index (all entries valid) remove deletes
\* one page per list entry, a doubled i removing the original pages i and
\* i + 1; the call succeeds and the result has the original count minus the
\* list length.
C27_RepeatedIndexRemovesOnePerEntry ==
  RemoveWithRepeats =>
    /\ result.ok
    /\ Len(ResultPages) = Len(Load(args.pdf)) - Len(args.pages)
    /\ \A i \in 0..(Len(Load(args.pdf)) - 1) :
         args.pages = <<i, i>> =>
           ResultPages = KeptPages(Load(args.pdf), {i, i + 1})

\* C27 (amended): with a repeated index (all entries valid) remove deletes
\* one page per list entry, from the largest entry down; the call succeeds,
\* with the original count minus the list length, exactly when every entry
\* still names a page at its turn (for every x, at most pageCount - x entries
\* are >= x), and a doubled i then removes the original pages i and i + 1;
\* otherwise (a doubled last index, more entries than pages) the call fails
\* and returns nothing.
C27_RepeatedIndexRemovesWhileItFits ==
  RemoveWithRepeats =>
    LET n == Len(Load(args.pdf)) IN
    IF EveryRemovalFits(args.pages, n)
    THEN /\ result.ok
         /\ Len(ResultPages) = n - Len(args.pages)
         /\ \A i \in 0..(n - 1) :
              args.pages = <<i, i>> => ResultPages = KeptPages(Load(args.pdf), {i, i + 1})
    ELSE /\ ~result.ok
         /\ result.val = <<>>
         /\ result.err = "CodecError"

C27_Witness ==
  /\ op = "remove"
  /\ Len(Load(args.pdf)) = 3
  /\ args.pages = <<0, 0>>
  /\ result.ok
  /\ ResultPages = <<Load(args.pdf)[3]>>


\* Entry i is applied before entry j: its position is smaller, or equal and
\* it stands earlier in the input list.
AppliedBefore(i, j) ==
  \/ args.inserts[i].position < args.inserts[j].position
  \/ args.inserts[i].position = args.inserts[j].position /\ i < j

\* The pages of the entries applied before entry j.
RECURSIVE PagesAppliedBefore(_, _)
PagesAppliedBefore(j, i) ==
  IF i > Len(args.inserts) THEN 0
  ELSE (IF i # j /\ AppliedBefore(i, j) THEN Len(Load(args.inserts[i].pdf)) ELSE 0)
       + PagesAppliedBefore(j, i + 1)

\* Where the block of entry j starts in the result (1-based).
BlockStart(j) == args.inserts[j].position + PagesAppliedBefore(j, 1) + 1

BlockEnd(j) == BlockStart(j) + Len(Load(args.inserts[j].pdf)) - 1

\* C28: insert orders its entries by a stable ascending sort on position:
\* the sorted list is ascending and keeps entries of equal position in
\* input-list order, and in the result the blocks of entries sharing a
\* position p stand in that order, each at the place the entries applied
\* before it leave, all of them after original page p-1 and before
\* original page p.
C28_EqualPositionsKeepInputOrder ==
  (op = "insert" /\ InsertPositionsValid) =>
    LET D == Load(args.basePdf)
        n == Len(args.inserts)
    IN /\ result.ok
       /\ argsAfter.inserts = SortedInserts
       /\ \A k \in 1..(n - 1) : SortedInserts[k].position <= SortedInserts[k + 1].position
       /\ \A j \in 1..n :
            LET p == args.inserts[j].position IN
            /\ SortedInserts[1 + Cardinality({i \in 1..n : i # j /\ AppliedBefore(i, j)})]
                 = args.inserts[j]
            /\ BlockEnd(j) <= Len(ResultPages)
            /\ SubSeq(ResultPages, BlockStart(j), BlockEnd(j)) = Load(args.inserts[j].pdf)
            /\ p > 0 =>
                 \E s \in 1..(BlockStart(j) - 1) : ResultPages[s] = D[p]
            /\ p > 0 =>
                 \A s \in BlockStart(j)..Len(ResultPages) : ResultPages[s] # D[p]
            /\ p < Len(D) =>
                 \E s \in (BlockEnd(j) + 1)..Len(ResultPages) : ResultPages[s] = D[p + 1]
            /\ p < Len(D) =>
                 \A s \in 1..BlockEnd(j) : ResultPages[s] # D[p + 1]

C28_Witness ==
  /\ op = "insert"
  /\ Len(Load(args.basePdf)) >= 2
  /\ Len(args.inserts) = 2
  /\ args.inserts[1].position = 1
  /\ args.inserts[2].position = 1
  /\ result.ok
  /\ BlockStart(1) = 2
  /\ BlockStart(2) = BlockEnd(1) + 1
  /\ ResultPages[BlockStart(2)] = Load(args.inserts[2].pdf)[1]
  /\ ResultPages[BlockEnd(2) + 1] = Load(args.basePdf)[2]


\* C29: insert called with an empty list of insertions makes no emptiness
\* check and does not fail: it succeeds and returns a document with the page
\* sequence of the base document.
C29_InsertAcceptsEmptyList ==
  (op = "insert" /\ args.inserts = <<>>) =>
    /\ result.ok
    /\ result.err # "EmptyInput"
    /\ ResultPages = Load(args.basePdf)
    /\ \A k \in 1..Len(steps) : steps[k].what # "checkEmpty"

C29_Witness ==
  /\ op = "insert"
  /\ args.inserts = <<>>
  /\ Len(Load(args.basePdf)) >= 2
  /\ result.ok
  /\ ResultPages = Load(args.basePdf)

\* Where the page that was at index from of doc stands in pages (0-based),
\* or -1 when it is not there.
IndexOfMoved(pages, doc, from) ==
  IF \E s \in 1..Len(pages) : pages[s] = doc[from + 1]
  THEN (CHOOSE s \in 1..Len(pages) : pages[s] = doc[from + 1]) - 1
  ELSE 0 - 1

====
